---- MODULE Spec2Model ----
(***************************************************************************)
(* State-machine model of the job orchestrator                             *)
(* (louisinayinde/Orchestrateur-taches).                                   *)
(*                                                                         *)
(*   Spec       the Store, Orchestrator.add_job / execute_job, the four    *)
(*              executors and RecoveryManager.recover, on a fresh store    *)
(*   SpecRestart the same operations on the store file left by a run that  *)
(*              crashed with executions in flight                          *)
(*   SpecSched  Orchestrator.schedule_job, the Scheduler tick loop, the    *)
(*              CronParser and the TaskQueue, driven by a wall clock       *)
(*   SpecCron   CronParser.parse and should_run_now applied to expressions *)
(*              and instants                                               *)
(*   SpecRetry  RetryStrategy.get_delay applied to attempt after attempt   *)
(*   SpecLoop   the Scheduler tick loop over schedules whose evaluation    *)
(*              raises, under a fair event loop and a running clock        *)
(*   SpecTicks  the Scheduler over a schedules table filled before it is   *)
(*              started                                                    *)
(*   SpecExec   the four executors called directly, on an idle or a busy   *)
(*              pool, their shutdown and ExecutorManager.shutdown_all      *)
(*   SpecFlow   the way of a scheduled job from the tick loop to an        *)
(*              execution, under fair scheduling                           *)
(*   SpecFail   execute_job calls that cannot be routed or are cancelled   *)
(*   SpecRetryLoop  RetryStrategy.should_retry and execute_with_retry      *)
(*   SpecMatch  CronParser.should_run_now applied to five-field schedules  *)
(*              at instants of a week                                      *)
(*   SpecAsync  concurrent execute calls on one AsyncExecutor, returning,  *)
(*              failing or cancelled                                       *)
(*   SpecSweep  RecoveryManager.recover statement by statement, next to    *)
(*              update_execution calls of another connection               *)
(*                                                                         *)
(* Optional values (Python None / SQL NULL) are modelled as sequences:     *)
(* <<>> is None, <<v>> is the value v.                                     *)
(***************************************************************************)
EXTENDS Integers, Sequences, FiniteSets, TLC

VARIABLES
    jobs,        \* table jobs: sequence of rows, id = index
    executions,  \* table executions: sequence of rows, id = index
    schedules,   \* table schedules: sequence of rows, id = index
    queue,       \* TaskQueue._queue: FIFO of jobs (by id)
    pc,          \* per caller of execute_job: "idle", "running", "returned",
                 \* "raised"
    cur,         \* per caller: the local Execution object of execute_job
    calls,       \* per job id: how many times its user function was invoked
    started,     \* per job id: how many execute_job calls were made for it
    swept,       \* ids selected by the last RecoveryManager.recover()
    lastError,   \* exception raised by the last facade call ("" = none)
    clock,       \* wall clock: time units since 2024-01-01 00:00 (a Monday)
    tick_seconds,\* Scheduler.tick_seconds, in time units
    running,     \* Scheduler.running
    tasks,       \* the _run_loop tasks created by Scheduler.start: [pc, wake]
    awaiting,    \* the tasks that pending Scheduler.stop calls await
    fired,       \* log of the calls of _enqueue_job: [sid, at, pushed]
    expression,  \* the cron expression handed to CronParser.parse
    cron_result, \* what should_run_now(parse(expression), now) gave ("none"
                 \* before the call)
    policy,      \* a RetryStrategy: backoff_base, initial_delay, max_delay
    attempt,     \* the attempt last handed to RetryStrategy.get_delay
    delay,       \* what get_delay(attempt) gave: [ok, value]
    closed,      \* the executors (by job type) on which shutdown() was called
    exec_result, \* the last executor.execute(job) made on a stand-alone
                 \* executor: [job_type, invoked, raised, result]
    retry_call,  \* the RetryStrategy.execute_with_retry call under way: the
                 \* strategy's max_retries, the max_retries argument, and the
                 \* locals and position of the call
    should,      \* the last should_retry(attempt, result) call: the
                 \* strategy's max_retries, attempt, result.status and the
                 \* value returned
    cron_input,    \* the CronSchedule handed to should_run_now
    async_exec,  \* the AsyncExecutor: free semaphore slots, _running_count
                 \* and, per execute call, its position
    sweep        \* the RecoveryManager.recover call under way: its position
                 \* and the ids its SELECT returned

vars == <<jobs, executions, schedules, queue, pc, cur, calls, started, swept,
          lastError, clock, tick_seconds, running, tasks, awaiting, fired,
          expression, cron_result, policy, attempt, delay,
          closed, exec_result, retry_call, should,
          cron_input, async_exec, sweep>>

storeVars == <<jobs, executions, schedules>>
execVars  == <<pc, cur, calls, started, swept>>
schedVars == <<queue, clock, tick_seconds, running, tasks, awaiting, fired>>
moreVars  == <<cron_input, async_exec, sweep>>
compVars  == <<closed, exec_result, retry_call, should, moreVars>>
pureVars  == <<expression, cron_result, policy, attempt, delay, compVars>>

(***************************************************************************)
(* Bounds of the model                                                     *)
(***************************************************************************)
MaxExecs    == 2   \* rows in the executions table
MaxSeedRows == 2   \* executions rows left in the store file by an earlier run
MaxSchedules == 2  \* rows in the schedules table
MaxTasks == 2      \* _run_loop tasks created over a run
UnitsPerMinute == 2 \* resolution of the clock: time units per minute
Horizon == 3       \* time units the clock advances over a run

Callers == {"c1", "c2"}   \* concurrent callers of execute_job
Names   == {"a", "b"}     \* job names offered to add_job

(***************************************************************************)
(* Optional values                                                         *)
(***************************************************************************)
None == <<>>
Some(v) == <<v>>
IsNone(o) == o = <<>>
Get(o) == o[1]

(***************************************************************************)
(* core/execution.py, core/job.py: enumerations                            *)
(***************************************************************************)
ExecutionStatus == {"PENDING", "RUNNING", "SUCCESS", "FAILED", "TIMEOUT"}
Terminal == {"SUCCESS", "FAILED", "TIMEOUT"}
JobType == {"sync", "async", "thread", "process"}

\* Execution dataclass defaults (core/execution.py)
NewExecution(id, job_id, status) ==
    [id |-> id, job_id |-> job_id, status |-> status, attempt |-> 1,
     started_at |-> None, completed_at |-> None, duration_seconds |-> None,
     result |-> "None", error_message |-> None, traceback |-> None]

\* ExecutionResult dataclass (core/execution.py)
ExecutionResult(status, result, error, traceback, duration) ==
    [status |-> status, result |-> result, error |-> error,
     traceback |-> traceback, duration_seconds |-> duration]

(***************************************************************************)
(* Python values returned by user functions, written as their repr, and    *)
(* their JSON texts (json.dumps / json.loads).                             *)
(***************************************************************************)
PyValues == {"None", "0", "5", "42", "False", "''", "[1, 2]", "(1, 2)"}

\* json.dumps: a tuple is written as a JSON array
JsonDumps(v) ==
    CASE v = "None"   -> "null"
      [] v = "0"      -> "0"
      [] v = "5"      -> "5"
      [] v = "42"     -> "42"
      [] v = "False"  -> "false"
      [] v = "''"     -> "\"\""
      [] v = "[1, 2]" -> "[1, 2]"
      [] v = "(1, 2)" -> "[1, 2]"

\* json.loads: a JSON array is read as a list
JsonLoads(t) ==
    CASE t = "null"   -> "None"
      [] t = "0"      -> "0"
      [] t = "5"      -> "5"
      [] t = "42"     -> "42"
      [] t = "false"  -> "False"
      [] t = "\"\""   -> "''"
      [] t = "[1, 2]" -> "[1, 2]"

\* bool(v) is False
PyFalsy(v) == v \in {"None", "0", "False", "''"}

\* v is, or holds, a tuple
HasTuple(v) == v = "(1, 2)"

(***************************************************************************)
(* User functions.  An outcome is what one invocation does: it returns a   *)
(* value or raises an exception of some class, and it is slow when it runs *)
(* longer than the job's timeout_seconds.                                  *)
(***************************************************************************)
Returns(v, slow) ==
    [kind |-> "return", value |-> v, exc |-> "", msg |-> "", slow |-> slow]
Raises(exc, m, slow) ==
    [kind |-> "raise", value |-> "None", exc |-> exc, msg |-> m, slow |-> slow]

\* Exception classes a user function raises.  ValueError and TimeoutError
\* derive from Exception; SystemExit (sys.exit) derives from BaseException
\* only.  concurrent.futures.TimeoutError is the builtin TimeoutError
\* (python_requires >= 3.11).
ExcClasses == {"ValueError", "TimeoutError", "SystemExit"}

IsException(exc) == exc \in {"ValueError", "TimeoutError"}

Functions == {"add", "boom", "sleep", "answer", "flaky", "echo"}

FnOutcomes(fn) ==
    CASE fn = "add"    -> {Returns("5", FALSE)}
      [] fn = "boom"   -> {Raises("ValueError", "boom", FALSE)}
      [] fn = "sleep"  -> {Returns("None", TRUE)}
      [] fn = "answer" -> {Returns("42", FALSE)}
      [] fn = "echo"   -> {Returns("False", FALSE), Returns("''", FALSE),
                           Returns("[1, 2]", FALSE), Returns("(1, 2)", FALSE)}
      [] fn = "flaky"  -> {Returns("0", FALSE), Returns("0", TRUE),
                           Raises("ValueError", "flaky", FALSE),
                           Raises("TimeoutError", "timed out", FALSE),
                           Raises("SystemExit", "3", FALSE)}

\* The job definitions offered to add_job (name apart).
Job(function, job_type, max_retries, timeout_seconds, idempotency_key) ==
    [function |-> function, job_type |-> job_type, max_retries |-> max_retries,
     timeout_seconds |-> timeout_seconds, idempotency_key |-> idempotency_key]

JobTemplates ==
    { Job("add",    "sync",    0, None,    None),
      Job("boom",   "sync",    2, None,    None),
      Job("sleep",  "thread",  0, Some(1), None),
      Job("answer", "async",   0, None,    Some("K")),
      Job("flaky",  "process", 1, Some(1), None),
      Job("echo",   "async",   0, None,    None) }

Named(tmpl, name) ==
    [name |-> name, function |-> tmpl.function, job_type |-> tmpl.job_type,
     max_retries |-> tmpl.max_retries, timeout_seconds |-> tmpl.timeout_seconds,
     idempotency_key |-> tmpl.idempotency_key]

(***************************************************************************)
(* db/repository.py: the Store                                             *)
(***************************************************************************)
\* Python truthiness of an Optional[int] (`if job.timeout_seconds:`)
Truthy(o) == ~IsNone(o) /\ Get(o) # 0

NameTakenNever(name) == FALSE

\* UNIQUE constraints of the jobs table (db/models.py)
NameTaken(name) == \E i \in 1..Len(jobs) : jobs[i].name = name
KeyTaken(key) ==
    ~IsNone(key) /\ \E i \in 1..Len(jobs) : jobs[i].idempotency_key = key

\* JobRepository.create_execution: INSERT ... VALUES (job_id, PENDING, 1, now)
CreateExecutionRow(job_id, now) ==
    [job_id |-> job_id, status |-> "PENDING", attempt |-> 1,
     started_at |-> Some(now), completed_at |-> None,
     duration_seconds |-> None, result_json |-> None,
     error_message |-> None, traceback |-> None]

UpdateExecutionFalsyDropped(execs, e) ==
    IF e.id \in 1..Len(execs)
    THEN [execs EXCEPT ![e.id] =
            [@ EXCEPT !.status = e.status,
                      !.attempt = e.attempt,
                      !.completed_at = e.completed_at,
                      !.duration_seconds = e.duration_seconds,
                      !.result_json = IF ~PyFalsy(e.result)
                                      THEN Some(JsonDumps(e.result))
                                      ELSE None,
                      !.error_message = e.error_message,
                      !.traceback = e.traceback]]
    ELSE execs

\* JobRepository.update_execution: UPDATE executions SET ... WHERE id = ?
UpdateExecution(execs, e) ==
    IF e.id \in 1..Len(execs)
    THEN [execs EXCEPT ![e.id] =
            [@ EXCEPT !.status = e.status,
                      !.attempt = e.attempt,
                      !.completed_at = e.completed_at,
                      !.duration_seconds = e.duration_seconds,
                      !.result_json = IF e.result # "None"
                                      THEN Some(JsonDumps(e.result))
                                      ELSE None,
                      !.error_message = e.error_message,
                      !.traceback = e.traceback]]
    ELSE execs

\* JobRepository.get_execution: row -> Execution (None when there is no row)
GetExecution(execs, id) ==
    IF id \in 1..Len(execs)
    THEN LET row == execs[id] IN
         Some([id |-> id, job_id |-> row.job_id, status |-> row.status,
               attempt |-> row.attempt, started_at |-> row.started_at,
               completed_at |-> row.completed_at,
               duration_seconds |-> row.duration_seconds,
               result |-> IF ~IsNone(row.result_json) /\ Get(row.result_json) # ""
                          THEN JsonLoads(Get(row.result_json))
                          ELSE "None",
               error_message |-> row.error_message,
               traceback |-> row.traceback])
    ELSE None

(***************************************************************************)
(* executors/*.py: each executor turns the outcome of the user function    *)
(* into an ExecutionResult.  Durations are in abstract seconds: a fast     *)
(* call takes 0, a slow one SlowSeconds, more than any timeout offered.    *)
(***************************************************************************)
SlowSeconds == 2

ErrMsg(text, arg) == [text |-> text, arg |-> arg]

Elapsed(o) == IF o.slow THEN SlowSeconds ELSE 0

\* `except Exception` does not catch what is not an Exception: the
\* executor's execute raises it to its caller
Propagates(o) == o.kind = "raise" /\ ~IsException(o.exc)

\* try: result = function(...) / except Exception as e
Captured(o) ==
    IF o.kind = "return"
    THEN ExecutionResult("SUCCESS", o.value, None, None, Some(Elapsed(o)))
    ELSE ExecutionResult("FAILED", "None", Some(ErrMsg(o.msg, None)),
                         Some("Traceback"), Some(Elapsed(o)))

MaxConcurrent == 2   \* the largest max_concurrent an AsyncExecutor is built with
MaxAsyncCalls == 3   \* execute calls made on one AsyncExecutor

AsyncCalls == 1..MaxAsyncCalls

\* AsyncExecutor.__init__: asyncio.Semaphore(max_concurrent) with every slot
\* free, _running_count = 0; no execute call made yet.  `at` is the position
\* of each execute call and `fn` the kind of its job.function.
AsyncExecutor(max_concurrent) ==
    [max_concurrent |-> max_concurrent, free |-> max_concurrent,
     running_count |-> 0,
     at |-> [k \in AsyncCalls |-> "new"],
     fn |-> [k \in AsyncCalls |-> "none"]]

\* SyncExecutor.execute: calls the function on the caller; no timeout
SyncExecute(job, o) == Captured(o)

\* AsyncExecutor.execute: awaits the function under the semaphore; no timeout
AsyncExecute(job, o) == Captured(o)

\* run_job of ThreadExecutor / ProcessExecutor: future.result(timeout),
\* then `except FuturesTimeoutError` before `except Exception`
PoolExecute(job, o) ==
    IF Truthy(job.timeout_seconds) /\ Elapsed(o) > Get(job.timeout_seconds)
    THEN ExecutionResult("TIMEOUT", "None",
                         Some(ErrMsg("Job timed out after {}s", job.timeout_seconds)),
                         None, Some(Get(job.timeout_seconds)))
    ELSE IF o.kind = "raise" /\ o.exc = "TimeoutError"
    THEN ExecutionResult("TIMEOUT", "None",
                         Some(ErrMsg("Job timed out after {}s", job.timeout_seconds)),
                         None, Some(Elapsed(o)))
    ELSE Captured(o)

\* run_job when every worker of the pool is busy for `wait` seconds more:
\* executor.submit queues the call and future.result(timeout) starts to
\* wait at once, so the function begins `wait` seconds into the timeout
\* and time.time() - start_time covers the wait as well
PoolExecuteQueued(job, o, wait) ==
    IF Truthy(job.timeout_seconds) /\ wait + Elapsed(o) > Get(job.timeout_seconds)
    THEN ExecutionResult("TIMEOUT", "None",
                         Some(ErrMsg("Job timed out after {}s", job.timeout_seconds)),
                         None, Some(Get(job.timeout_seconds)))
    ELSE [PoolExecute(job, o) EXCEPT !.duration_seconds = Some(wait + Elapsed(o))]

ThreadExecuteNoTimeout(job, o) == Captured(o)

\* ThreadExecutor.execute
ThreadExecute(job, o) == PoolExecute(job, o)

\* ProcessExecutor.execute
ProcessExecute(job, o) == PoolExecute(job, o)

\* ExecutorManager.get_executor + executor.execute(job)
Execute(job, o) ==
    CASE job.job_type = "sync"    -> SyncExecute(job, o)
      [] job.job_type = "async"   -> AsyncExecute(job, o)
      [] job.job_type = "thread"  -> ThreadExecute(job, o)
      [] job.job_type = "process" -> ProcessExecute(job, o)

(***************************************************************************)
(* core/orchestrator.py                                                    *)
(***************************************************************************)
\* A sync job runs on the event loop itself: SyncExecutor.execute never
\* suspends, so nothing else on the loop runs while its function does.
SyncRunning(c) == pc[c] = "running" /\ jobs[cur[c].job_id].job_type = "sync"
LoopFree == \A c \in Callers : ~SyncRunning(c)

\* Orchestrator.add_job -> JobRepository.create_job (INSERT INTO jobs)
AddJob(name, tmpl) ==
    /\ LoopFree
    /\ IF NameTaken(name) \/ KeyTaken(tmpl.idempotency_key)
       THEN /\ lastError' = "IntegrityError"
            /\ UNCHANGED <<jobs, calls, started>>
       ELSE /\ jobs' = Append(jobs, Named(tmpl, name))
            /\ calls' = Append(calls, 0)
            /\ started' = Append(started, 0)
            /\ lastError' = ""
    /\ UNCHANGED <<executions, schedules, pc, cur, swept, schedVars, pureVars>>

FinalExecutionStatusKept(execution, result) ==
    [execution EXCEPT !.result = result.result,
                      !.error_message = result.error]

\* execute_job lines 150-153: copy the executor's result into the Execution
FinalExecution(execution, result) ==
    [execution EXCEPT !.status = result.status,
                      !.result = result.result,
                      !.error_message = result.error]

\* execute_job up to `await executor.execute(job)`: the PENDING row is
\* inserted, the local Execution is built and the user function is invoked.
ExecuteBegin(c, j) ==
    /\ LoopFree
    /\ pc[c] # "running"
    /\ j \in 1..Len(jobs)
    /\ Len(executions) < MaxExecs
    /\ executions' = Append(executions, CreateExecutionRow(j, clock))
    /\ cur' = [cur EXCEPT ![c] = NewExecution(Len(executions) + 1, j, "RUNNING")]
    /\ started' = [started EXCEPT ![j] = @ + 1]
    /\ calls' = [calls EXCEPT ![j] = @ + 1]
    /\ pc' = [pc EXCEPT ![c] = "running"]
    /\ UNCHANGED <<jobs, schedules, swept, lastError, schedVars, pureVars>>

\* execute_job from the executor's return to `return execution`; when the
\* executor raises, execute_job raises at `await executor.execute(job)`
ExecuteFinish(c, o) ==
    /\ pc[c] = "running"
    /\ \A d \in Callers \ {c} : ~SyncRunning(d)
    /\ o \in FnOutcomes(jobs[cur[c].job_id].function)
    /\ IF Propagates(o)
       THEN /\ pc' = [pc EXCEPT ![c] = "raised"]
            /\ lastError' = o.exc
            /\ UNCHANGED <<cur, executions>>
       ELSE /\ LET result == Execute(jobs[cur[c].job_id], o)
                   execution == FinalExecution(cur[c], result)
               IN /\ cur' = [cur EXCEPT ![c] = execution]
                  /\ executions' = UpdateExecution(executions, execution)
            /\ pc' = [pc EXCEPT ![c] = "returned"]
            /\ UNCHANGED lastError
    /\ UNCHANGED <<jobs, schedules, calls, started, swept, schedVars, pureVars>>

(***************************************************************************)
(* resilience/recovery.py                                                  *)
(***************************************************************************)
RecoverSelectNotFailed(execs) ==
    {i \in 1..Len(execs) : execs[i].status # "FAILED"}

\* SELECT id FROM executions WHERE status = 'RUNNING'
RecoverSelect(execs) == {i \in 1..Len(execs) : execs[i].status = "RUNNING"}

RecoverUpdateFirstOnly(execs, ids) ==
    LET first == CHOOSE i \in ids : \A k \in ids : i <= k IN
    [i \in 1..Len(execs) |->
        IF i = first THEN [execs[i] EXCEPT !.status = "FAILED"] ELSE execs[i]]

\* UPDATE executions SET status = 'FAILED' WHERE id IN (...)
RecoverUpdate(execs, ids) ==
    [i \in 1..Len(execs) |->
        IF i \in ids THEN [execs[i] EXCEPT !.status = "FAILED"] ELSE execs[i]]

\* RecoveryManager.recover
Recover ==
    /\ LoopFree
    /\ LET ids == RecoverSelect(executions)
       IN /\ swept' = ids
          /\ executions' = IF ids = {} THEN executions
                           ELSE RecoverUpdate(executions, ids)
    /\ UNCHANGED <<jobs, schedules, pc, cur, calls, started, lastError, schedVars, pureVars>>

(***************************************************************************)
(* Initial states: a fresh store (Spec), or the store file of an earlier   *)
(* run that crashed with executions in flight (SpecRestart).               *)
(***************************************************************************)
SeedJob == Named(Job("add", "sync", 0, None, None), "a")

SeedRow(status) == [CreateExecutionRow(1, 0) EXCEPT !.status = status]

SeqsUpTo(S, n) == UNION {[1..k -> S] : k \in 0..n}

SeedExecutions ==
    {[i \in 1..Len(ss) |-> SeedRow(ss[i])] :
        ss \in SeqsUpTo({"PENDING", "RUNNING"}, MaxSeedRows)}

\* RetryStrategy.__init__ defaults
DefaultPolicy == [backoff_base |-> 2, initial_delay |-> 1, max_delay |-> 60]

\* RetryStrategy.__init__ default
DefaultMaxRetries == 3

\* no executor shut down or called, no execute_with_retry or should_retry
\* call made
NoResult == ExecutionResult("PENDING", "None", None, None, None)

InitCalls ==
    /\ closed = {}
    /\ exec_result = [job_type |-> "none", invoked |-> FALSE, raised |-> "",
                      waited |-> 0, result |-> NoResult]
    /\ retry_call = [self_max_retries |-> DefaultMaxRetries, max_retries |-> None,
                     max_tries |-> DefaultMaxRetries, attempt |-> 0, calls |-> 0,
                     result |-> NoResult, pc |-> "idle"]
    /\ should = [max_retries |-> DefaultMaxRetries, attempt |-> 0,
                 status |-> "PENDING", value |-> FALSE]
    /\ async_exec = AsyncExecutor(1)
    /\ sweep = [pc |-> "idle", ids |-> {}, count |-> 0]

\* CronSchedule(): every field "*"
InitComp ==
    /\ InitCalls
    /\ cron_input = [ok |-> TRUE, minute |-> <<"*">>, hour |-> <<"*">>,
                        day_of_month |-> <<"*">>, month |-> <<"*">>,
                        day_of_week |-> <<"*">>]

\* no cron expression under evaluation, the default RetryStrategy unused
InitPure ==
    /\ expression = <<>>
    /\ cron_result = "none"
    /\ policy = DefaultPolicy
    /\ attempt = 0
    /\ delay = [ok |-> TRUE, value |-> 0]
    /\ InitComp

InitIdle ==
    /\ schedules = <<>>
    /\ queue = <<>>
    /\ pc = [c \in Callers |-> "idle"]
    /\ cur = [c \in Callers |-> NewExecution(0, 0, "PENDING")]
    /\ swept = {}
    /\ lastError = ""
    /\ running = FALSE
    /\ tasks = <<>>
    /\ awaiting = {}
    /\ fired = <<>>

InitRest == InitIdle /\ InitPure

\* A fresh store
Init ==
    /\ jobs = <<>>
    /\ executions = <<>>
    /\ calls = <<>>
    /\ started = <<>>
    /\ clock = 0
    /\ tick_seconds = UnitsPerMinute
    /\ InitRest

\* The store file found at start-up after a crash
InitRestart ==
    /\ executions \in SeedExecutions
    /\ jobs = IF executions = <<>> THEN <<>> ELSE <<SeedJob>>
    /\ calls = [i \in 1..Len(jobs) |-> 0]
    /\ started = [i \in 1..Len(jobs) |-> 0]
    /\ clock = 0
    /\ tick_seconds = UnitsPerMinute
    /\ InitRest

Next ==
    \/ \E name \in Names, tmpl \in JobTemplates : AddJob(name, tmpl)
    \/ \E c \in Callers, j \in 1..Len(jobs) : ExecuteBegin(c, j)
    \/ \E c \in Callers :
         \E o \in UNION {FnOutcomes(f) : f \in Functions} : ExecuteFinish(c, o)
    \/ Recover

Spec == Init /\ [][Next]_vars

SpecRestart == InitRestart /\ [][Next]_vars

(***************************************************************************)
(* RecoveryManager.recover statement by statement, on a store that another *)
(* connection updates meanwhile (SpecSweep).  recover opens no transaction *)
(* around its SELECT and its UPDATE, so that a committed update_execution  *)
(* of another connection can fall between the two.                         *)
(***************************************************************************)
sweepRest == <<jobs, schedules, execVars, lastError, schedVars, expression,
               cron_result, policy, attempt, delay, closed, exec_result,
               retry_call, should, cron_input, async_exec>>

\* recover up to rows = cursor.fetchall(): `return 0` when no row is RUNNING
SweepSelect ==
    /\ sweep.pc = "idle"
    /\ LET ids == RecoverSelect(executions)
       IN sweep' = IF ids = {}
                   THEN [pc |-> "idle", ids |-> {}, count |-> 0]
                   ELSE [pc |-> "selected", ids |-> ids, count |-> sweep.count]
    /\ UNCHANGED <<executions, sweepRest>>

\* recover from the UPDATE to `return len(execution_ids)`
SweepUpdate ==
    /\ sweep.pc = "selected"
    /\ executions' = RecoverUpdate(executions, sweep.ids)
    /\ sweep' = [pc |-> "idle", ids |-> sweep.ids,
                 count |-> Cardinality(sweep.ids)]
    /\ UNCHANGED sweepRest

\* JobRepository.update_execution(execution) on another connection: the
\* owner of execution i, which has not completed, records its completion
UpdateExecutionCall(i, status) ==
    /\ i \in 1..Len(executions)
    /\ executions[i].status \notin Terminal
    /\ LET execution == [Get(GetExecution(executions, i)) EXCEPT
                            !.status = status,
                            !.completed_at = Some(clock)]
       IN executions' = UpdateExecution(executions, execution)
    /\ UNCHANGED <<sweep, sweepRest>>

InitSweep == InitRestart

NextSweep ==
    \/ SweepSelect
    \/ SweepUpdate
    \/ \E i \in 1..MaxSeedRows : \E status \in Terminal :
         UpdateExecutionCall(i, status)

SpecSweep == InitSweep /\ [][NextSweep]_vars

(***************************************************************************)
(* Text.  A Python str is modelled as the sequence of its characters, so   *)
(* that the parser's prefix test and regular expressions can be computed.  *)
(***************************************************************************)
Digits == <<"0", "1", "2", "3", "4", "5", "6", "7", "8", "9">>

IsDigit(ch) == \E i \in 1..10 : Digits[i] = ch
DigitVal(ch) == (CHOOSE i \in 1..10 : Digits[i] = ch) - 1

\* \d+ : one or more digits
IsDigits(s) == Len(s) > 0 /\ \A i \in 1..Len(s) : IsDigit(s[i])

RECURSIVE ToInt(_)
ToInt(s) ==
    IF Len(s) = 0 THEN 0
    ELSE 10 * ToInt(SubSeq(s, 1, Len(s) - 1)) + DigitVal(s[Len(s)])

\* str.strip(): leading and trailing blanks removed
RECURSIVE Strip(_)
Strip(s) ==
    IF Len(s) = 0 THEN s
    ELSE IF s[1] = " " THEN Strip(Tail(s))
    ELSE IF s[Len(s)] = " " THEN Strip(SubSeq(s, 1, Len(s) - 1))
    ELSE s

\* str.startswith(prefix)
StartsWith(s, prefix) ==
    Len(s) >= Len(prefix) /\ SubSeq(s, 1, Len(prefix)) = prefix

\* str.split(sep) for a one-character separator
RECURSIVE Split(_, _)
Split(s, sep) ==
    IF \A i \in 1..Len(s) : s[i] # sep THEN <<s>>
    ELSE LET k == CHOOSE i \in 1..Len(s) :
                     s[i] = sep /\ \A m \in 1..(i - 1) : s[m] # sep
         IN <<SubSeq(s, 1, k - 1)>> \o Split(SubSeq(s, k + 1, Len(s)), sep)

\* the maximal runs of non-blank characters (the \S+ groups between \s+)
Words(s) == SelectSeq(Split(s, " "), LAMBDA w : Len(w) > 0)

\* int(text): blanks around, an optional sign, then digits; anything else
\* raises ValueError
IntText(x) ==
    LET t == Strip(x)
        u == IF Len(t) > 0 /\ t[1] \in {"+", "-"} THEN Tail(t) ELSE t
    IN [ok |-> IsDigits(u),
        value |-> IF IsDigits(u)
                  THEN (IF Len(t) > 0 /\ t[1] = "-" THEN 0 - ToInt(u) ELSE ToInt(u))
                  ELSE 0]

(***************************************************************************)
(* scheduler/cron_parser.py                                                *)
(***************************************************************************)
\* CronSchedule dataclass; ok = FALSE stands for the ValueError of parse
CronSchedule(minute, hour, day_of_month, month, day_of_week) ==
    [ok |-> TRUE, minute |-> minute, hour |-> hour,
     day_of_month |-> day_of_month, month |-> month,
     day_of_week |-> day_of_week]

InvalidCron ==
    [ok |-> FALSE, minute |-> <<>>, hour |-> <<>>, day_of_month |-> <<>>,
     month |-> <<>>, day_of_week |-> <<>>]

Star == <<"*">>

\* CronParser.parse
ParseCron(cron_expr) ==
    LET e == Strip(cron_expr)
        w == Words(e)
    IN IF StartsWith(e, <<"*", "/">>)
       THEN CronSchedule(e, Star, Star, Star, Star)
       ELSE IF Len(w) = 5
       THEN CronSchedule(w[1], w[2], w[3], w[4], w[5])
       ELSE InvalidCron

\* PATTERN_EVERY_N  ^\*/(\d+)$
IsEveryN(field) ==
    /\ Len(field) >= 3
    /\ field[1] = "*"
    /\ field[2] = "/"
    /\ IsDigits(SubSeq(field, 3, Len(field)))

\* PATTERN_RANGE  ^(\d+)-(\d+)$
IsRange(field) ==
    LET parts == Split(field, "-")
    IN Len(parts) = 2 /\ IsDigits(parts[1]) /\ IsDigits(parts[2])

\* _match_field with the bounds of a range excluded
MatchFieldOpenRange(field, value) ==
    IF field = Star THEN "true"
    ELSE IF IsEveryN(field)
    THEN LET n == ToInt(SubSeq(field, 3, Len(field)))
         IN IF n = 0 THEN "raise"
            ELSE IF value % n = 0 THEN "true" ELSE "false"
    ELSE IF IsDigits(field)
    THEN IF value = ToInt(field) THEN "true" ELSE "false"
    ELSE IF IsRange(field)
    THEN LET parts == Split(field, "-")
         IN IF ToInt(parts[1]) < value /\ value < ToInt(parts[2])
            THEN "true" ELSE "false"
    ELSE IF \E i \in 1..Len(field) : field[i] = ","
    THEN LET items == Split(field, ",")
         IN IF \E i \in 1..Len(items) : ~IntText(items[i]).ok THEN "raise"
            ELSE IF \E i \in 1..Len(items) : IntText(items[i]).value = value
            THEN "true" ELSE "false"
    ELSE "false"

\* CronParser._match_field: "true", "false", or "raise" for an exception
MatchField(field, value) ==
    IF field = Star THEN "true"
    ELSE IF IsEveryN(field)
    THEN LET n == ToInt(SubSeq(field, 3, Len(field)))
         IN IF n = 0 THEN "raise"
            ELSE IF value % n = 0 THEN "true" ELSE "false"
    ELSE IF IsDigits(field)
    THEN IF value = ToInt(field) THEN "true" ELSE "false"
    ELSE IF IsRange(field)
    THEN LET parts == Split(field, "-")
         IN IF ToInt(parts[1]) <= value /\ value <= ToInt(parts[2])
            THEN "true" ELSE "false"
    ELSE IF \E i \in 1..Len(field) : field[i] = ","
    THEN LET items == Split(field, ",")
         IN IF \E i \in 1..Len(items) : ~IntText(items[i]).ok THEN "raise"
            ELSE IF \E i \in 1..Len(items) : IntText(items[i]).value = value
            THEN "true" ELSE "false"
    ELSE "false"

\* Python's `a and b`: b is evaluated only when a is true
AndThen(a, b) == IF a = "true" THEN b ELSE a

\* CronParser.should_run_now
ShouldRunNow(schedule, now) ==
    AndThen(MatchField(schedule.minute, now.minute),
    AndThen(MatchField(schedule.hour, now.hour),
    AndThen(MatchField(schedule.day_of_month, now.day),
    AndThen(MatchField(schedule.month, now.month),
            MatchField(schedule.day_of_week, now.weekday)))))

(***************************************************************************)
(* The wall clock.  datetime.now() at time unit `t`: the fields that       *)
(* should_run_now reads (weekday() counts from Monday = 0).                *)
(***************************************************************************)
MinutesPerDay == 24 * 60

Now(t) ==
    LET m == t \div UnitsPerMinute
    IN [second |-> (t % UnitsPerMinute) * (60 \div UnitsPerMinute),
        minute |-> m % 60,
        hour |-> (m \div 60) % 24,
        day |-> 1 + (m \div MinutesPerDay),
        month |-> 1,
        weekday |-> (m \div MinutesPerDay) % 7]

\* the minute an instant falls in
MinuteOf(t) == t \div UnitsPerMinute

\* a run starts one time unit before 12:05
StartClocks == {(12 * 60 + 5) * UnitsPerMinute - 1}

\* the tick periods offered to Scheduler(...): one time unit (less than a
\* minute) and one minute
TickChoices == {1, UnitsPerMinute}

\* Time passes by one unit; asyncio.sleep timers that are due make their
\* task ready to run (the task runs when the event loop gets to it).
Advance ==
    /\ \E c0 \in StartClocks : c0 <= clock /\ clock < c0 + Horizon
    /\ clock' = clock + 1
    /\ tasks' = [t \in 1..Len(tasks) |->
                    IF tasks[t].pc = "sleep" /\ tasks[t].wake <= clock + 1
                    THEN [pc |-> "ready", wake |-> 0]
                    ELSE tasks[t]]
    /\ UNCHANGED <<storeVars, execVars, pureVars, lastError, queue, tick_seconds,
                   running, awaiting, fired>>

(***************************************************************************)
(* Orchestrator.schedule_job -> JobRepository.create_schedule              *)
(***************************************************************************)
Sp == <<" ">>
Cron5(a, b, c, d, e) == a \o Sp \o b \o Sp \o c \o Sp \o d \o Sp \o e

EveryN(n) == <<"*", "/", n>>

ScheduleRequest(cron_expression, run_at, enabled) ==
    [cron_expression |-> cron_expression, run_at |-> run_at, enabled |-> enabled]

At1205 == (12 * 60 + 5) * UnitsPerMinute

\* the calls of schedule_job offered to the model
ScheduleRequests ==
    { ScheduleRequest(Some(Cron5(EveryN("5"), Star, Star, Star, Star)), None, TRUE),
      ScheduleRequest(Some(EveryN("5")), None, TRUE),
      ScheduleRequest(Some(Cron5(Star, Star, Star, Star, Star)), None, TRUE),
      ScheduleRequest(Some(Cron5(Star, Star, Star, Star, Star)), None, FALSE),
      ScheduleRequest(Some(EveryN("0")), None, TRUE),
      ScheduleRequest(None, Some(At1205), TRUE),
      ScheduleRequest(Some(Cron5(Star, Star, Star, Star, Star)), Some(At1205), TRUE),
      ScheduleRequest(None, None, TRUE) }

\* `not x` for an Optional[str] / Optional[datetime]
Falsy(o) == IsNone(o) \/ Get(o) = <<>>

ScheduleJob(j, req) ==
    /\ LoopFree
    /\ Len(schedules) < MaxSchedules
    /\ j \in 1..Len(jobs)
    /\ IF Falsy(req.cron_expression) /\ IsNone(req.run_at)
       THEN /\ lastError' = "ValueError"
            /\ UNCHANGED schedules
       ELSE /\ schedules' = Append(schedules,
                                   [job_id |-> j,
                                    cron_expression |-> req.cron_expression,
                                    run_at |-> req.run_at,
                                    enabled |-> req.enabled])
            /\ lastError' = ""
    /\ UNCHANGED <<jobs, executions, execVars, schedVars, pureVars>>

(***************************************************************************)
(* scheduler/scheduler.py                                                  *)
(***************************************************************************)
\* Scheduler._should_execute: "true", "false", or "raise"
ShouldExecute(schedule, now) ==
    IF ~IsNone(schedule.run_at)
    THEN IF now >= Get(schedule.run_at) THEN "true" ELSE "false"
    ELSE IF ~Falsy(schedule.cron_expression)
    THEN LET cron_schedule == ParseCron(Get(schedule.cron_expression))
         IN IF ~cron_schedule.ok THEN "raise"
            ELSE ShouldRunNow(cron_schedule, Now(now))
    ELSE "false"

\* get_job with the columns of the jobs row read in table order
GetJobInTableOrder(job_id) ==
    IF job_id \in 1..Len(jobs) THEN [raised |-> FALSE, job |-> Some(job_id)]
    ELSE [raised |-> FALSE, job |-> None]

\* JobRepository.get_job: None when no row has the id; for a row that
\* exists, args is json.loads(row[2]) and row[2] of `SELECT *` is
\* function_path ("module.name"), so building the Job raises
GetJob(job_id) ==
    IF job_id \in 1..Len(jobs) THEN [raised |-> TRUE, job |-> None]
    ELSE [raised |-> FALSE, job |-> None]

\* Scheduler._enqueue_job: get_job, then queue.push when the job exists
EnqueueJob(q, schedule) ==
    LET r == GetJob(schedule.job_id)
    IN IF r.raised THEN [raised |-> TRUE, queue |-> q]
       ELSE IF ~IsNone(r.job) THEN [raised |-> FALSE, queue |-> Append(q, Get(r.job))]
       ELSE [raised |-> FALSE, queue |-> q]

\* Scheduler._tick from schedule i on: the enabled schedules in id order;
\* every call of _enqueue_job is logged with whether it pushed; an exception
\* leaves the loop with the pushes made so far
RECURSIVE TickFrom(_, _, _, _)
TickFrom(i, q, log, now) ==
    IF i > Len(schedules) THEN [queue |-> q, fired |-> log, raised |-> FALSE]
    ELSE IF ~schedules[i].enabled THEN TickFrom(i + 1, q, log, now)
    ELSE LET due == ShouldExecute(schedules[i], now)
         IN IF due = "raise" THEN [queue |-> q, fired |-> log, raised |-> TRUE]
            ELSE IF due = "true"
            THEN LET e == EnqueueJob(q, schedules[i])
                     called == Append(log, [sid |-> i, at |-> now,
                                            pushed |-> e.queue # q])
                 IN IF e.raised
                    THEN [queue |-> q, fired |-> called, raised |-> TRUE]
                    ELSE TickFrom(i + 1, e.queue, called, now)
            ELSE TickFrom(i + 1, q, log, now)

\* Scheduler._tick
Tick(q, log, now) == TickFrom(1, q, log, now)

StartAlways ==
    /\ LoopFree
    /\ Len(tasks) < MaxTasks
    /\ running' = TRUE
    /\ tasks' = Append(tasks, [pc |-> "ready", wake |-> 0])
    /\ UNCHANGED <<storeVars, execVars, pureVars, lastError, queue, clock, tick_seconds,
                   awaiting, fired>>

\* Scheduler.start
Start ==
    /\ LoopFree
    /\ Len(tasks) < MaxTasks
    /\ IF running
       THEN UNCHANGED <<running, tasks>>
       ELSE /\ running' = TRUE
            /\ tasks' = Append(tasks, [pc |-> "ready", wake |-> 0])
    /\ UNCHANGED <<storeVars, execVars, pureVars, lastError, queue, clock, tick_seconds,
                   awaiting, fired>>

\* Scheduler.stop up to `await self._task`
Stop ==
    /\ LoopFree
    /\ IF ~running
       THEN UNCHANGED <<running, awaiting>>
       ELSE /\ running' = FALSE
            /\ awaiting' = IF Len(tasks) > 0 THEN awaiting \cup {Len(tasks)}
                           ELSE awaiting
    /\ UNCHANGED <<storeVars, execVars, pureVars, lastError, queue, clock, tick_seconds,
                   tasks, fired>>

\* Scheduler.stop returns: the awaited task is done
StopReturn(t) ==
    /\ LoopFree
    /\ t \in awaiting
    /\ tasks[t].pc = "done"
    /\ awaiting' = awaiting \ {t}
    /\ UNCHANGED <<storeVars, execVars, pureVars, lastError, queue, clock, tick_seconds,
                   running, tasks, fired>>

\* _tick raises: _should_execute or _enqueue_job raises for some enabled
\* schedule
TickRaises(now) == Tick(queue, fired, now).raised

LoopStepDiesOnError(t) ==
    /\ LoopFree
    /\ t \in 1..Len(tasks)
    /\ tasks[t].pc = "ready"
    /\ IF running
       THEN LET r == Tick(queue, fired, clock)
            IN /\ queue' = r.queue
               /\ fired' = r.fired
               /\ tasks' = [tasks EXCEPT ![t] =
                              IF TickRaises(clock)
                              THEN [pc |-> "done", wake |-> 0]
                              ELSE [pc |-> "sleep", wake |-> clock + tick_seconds]]
       ELSE /\ tasks' = [tasks EXCEPT ![t] = [pc |-> "done", wake |-> 0]]
            /\ UNCHANGED <<queue, fired>>
    /\ UNCHANGED <<storeVars, execVars, pureVars, lastError, clock, tick_seconds,
                   running, awaiting>>

\* One iteration of Scheduler._run_loop by a task that is new or whose
\* sleep is over: `while self.running`, _tick under try/except, then
\* asyncio.sleep(self.tick_seconds)
LoopStep(t) ==
    /\ LoopFree
    /\ t \in 1..Len(tasks)
    /\ tasks[t].pc = "ready"
    /\ IF running
       THEN LET r == Tick(queue, fired, clock)
            IN /\ queue' = r.queue
               /\ fired' = r.fired
               /\ tasks' = [tasks EXCEPT ![t] =
                              [pc |-> "sleep", wake |-> clock + tick_seconds]]
       ELSE /\ tasks' = [tasks EXCEPT ![t] = [pc |-> "done", wake |-> 0]]
            /\ UNCHANGED <<queue, fired>>
    /\ UNCHANGED <<storeVars, execVars, pureVars, lastError, clock, tick_seconds,
                   running, awaiting>>

\* A store that holds one job, a Scheduler built on it and not yet started
InitSched ==
    /\ jobs = <<SeedJob>>
    /\ executions = <<>>
    /\ calls = <<0>>
    /\ started = <<0>>
    /\ clock \in StartClocks
    /\ tick_seconds \in TickChoices
    /\ InitRest

NextSched ==
    \/ \E j \in 1..Len(jobs), req \in ScheduleRequests : ScheduleJob(j, req)
    \/ Start
    \/ Stop
    \/ \E t \in 1..Len(tasks) : StopReturn(t)
    \/ \E t \in 1..Len(tasks) : LoopStep(t)
    \/ Advance

SpecSched == InitSched /\ [][NextSched]_vars

(***************************************************************************)
(* The tick loop over a schedules table that holds schedules whose         *)
(* evaluation raises (SpecLoop).  The event loop runs a task that is ready *)
(* and time passes: weak fairness of LoopStep and of Advance.              *)
(***************************************************************************)
\* an expression CronParser.parse rejects with ValueError
BadCron == <<"b", "a", "d">>

ScheduleRow(job_id, req) ==
    [job_id |-> job_id, cron_expression |-> req.cron_expression,
     run_at |-> req.run_at, enabled |-> req.enabled]

\* rows of the schedules table: every minute, `*/0` (ZeroDivisionError in
\* _match_field) and an invalid expression (ValueError in parse)
EveryMinuteRow ==
    ScheduleRow(1, ScheduleRequest(Some(Cron5(Star, Star, Star, Star, Star)), None, TRUE))

EveryZeroRow == ScheduleRow(1, ScheduleRequest(Some(EveryN("0")), None, TRUE))

BadCronRow == ScheduleRow(1, ScheduleRequest(Some(BadCron), None, TRUE))

\* the schedules tables a run starts with: a row whose evaluation raises,
\* before or after a row that is due every minute, or alone
LoopSchedules ==
    { <<EveryMinuteRow, BadCronRow>>, <<EveryMinuteRow, EveryZeroRow>>,
      <<BadCronRow, EveryMinuteRow>>, <<EveryZeroRow>> }

InitLoop ==
    /\ jobs = <<SeedJob>>
    /\ executions = <<>>
    /\ calls = <<0>>
    /\ started = <<0>>
    /\ clock \in StartClocks
    /\ tick_seconds = UnitsPerMinute   \* Scheduler(...) default: 60 seconds
    /\ schedules \in LoopSchedules
    /\ queue = <<>>
    /\ pc = [c \in Callers |-> "idle"]
    /\ cur = [c \in Callers |-> NewExecution(0, 0, "PENDING")]
    /\ swept = {}
    /\ lastError = ""
    /\ running = FALSE
    /\ tasks = <<>>
    /\ awaiting = {}
    /\ fired = <<>>
    /\ InitPure

\* One iteration of Scheduler._run_loop in which _get_active_schedules
\* raises (a Store error): nothing is pushed, the except clause prints the
\* error, and the task sleeps tick_seconds
LoopStepStoreError(t) ==
    /\ LoopFree
    /\ t \in 1..Len(tasks)
    /\ tasks[t].pc = "ready"
    /\ running
    /\ tasks' = [tasks EXCEPT ![t] =
                    [pc |-> "sleep", wake |-> clock + tick_seconds]]
    /\ UNCHANGED <<storeVars, execVars, pureVars, lastError, queue, fired, clock,
                   tick_seconds, running, awaiting>>

\* an iteration of _run_loop by task t
LoopIteration(t) == LoopStep(t) \/ LoopStepStoreError(t)

NextLoop ==
    \/ Start
    \/ Stop
    \/ \E t \in 1..Len(tasks) : StopReturn(t)
    \/ \E t \in 1..Len(tasks) : LoopStep(t)
    \/ \E t \in 1..Len(tasks) : LoopStepStoreError(t)
    \/ Advance

\* an iteration by task t is enabled exactly when the task is ready to run
LoopStepReady(t) ==
    LoopFree /\ t \in 1..Len(tasks) /\ tasks[t].pc = "ready"

\* the event loop runs a task that stays ready: weak fairness of the
\* iteration of task t, with its enabling condition written out
FairLoopStep(t) ==
    []<>(~LoopStepReady(t)) \/ []<><<LoopIteration(t)>>_vars

SpecLoop ==
    /\ InitLoop
    /\ [][NextLoop]_vars
    /\ WF_vars(Advance)
    /\ \A t \in 1..MaxTasks : FairLoopStep(t)

(***************************************************************************)
(* The Scheduler over a schedules table filled before it is started        *)
(* (SpecTicks): a cron schedule that is due every minute, a one-shot       *)
(* schedule, both or neither, ticked every time unit or every minute.      *)
(***************************************************************************)
OneShotRow == ScheduleRow(1, ScheduleRequest(None, Some(At1205), TRUE))

TickSchedules ==
    { <<>>, <<EveryMinuteRow>>, <<OneShotRow>>, <<OneShotRow, EveryMinuteRow>> }

InitTicks ==
    /\ jobs = <<SeedJob>>
    /\ executions = <<>>
    /\ calls = <<0>>
    /\ started = <<0>>
    /\ clock \in StartClocks
    /\ tick_seconds \in TickChoices
    /\ schedules \in TickSchedules
    /\ queue = <<>>
    /\ pc = [c \in Callers |-> "idle"]
    /\ cur = [c \in Callers |-> NewExecution(0, 0, "PENDING")]
    /\ swept = {}
    /\ lastError = ""
    /\ running = FALSE
    /\ tasks = <<>>
    /\ awaiting = {}
    /\ fired = <<>>
    /\ InitPure

NextTicks ==
    \/ Start
    \/ Stop
    \/ \E t \in 1..Len(tasks) : StopReturn(t)
    \/ \E t \in 1..Len(tasks) : LoopStep(t)
    \/ Advance

SpecTicks == InitTicks /\ [][NextTicks]_vars

(***************************************************************************)
(* CronParser applied to expressions and instants (SpecCron)                *)
(***************************************************************************)
CronMinutes == 10   \* minutes the instants range over, from 12:00 on

\* the N of the `*/N` expressions offered
CronNs == {"1", "2", "5"}

Canonical(n) == Cron5(EveryN(n), Star, Star, Star, Star)

CronInputs == {EveryN(n) : n \in CronNs} \cup {Canonical(n) : n \in CronNs}

CronStart == 12 * 60 * UnitsPerMinute

\* should_run_now(parse(expression), now): "true", "false", "raise" for an
\* exception of _match_field, "invalid" for the ValueError of parse
MatchAt(e, t) ==
    LET schedule == ParseCron(e)
    IN IF ~schedule.ok THEN "invalid" ELSE ShouldRunNow(schedule, Now(t))

\* CronParser.should_run_now(CronParser.parse(expression), datetime.now())
CronShouldRun ==
    /\ cron_result = "none"
    /\ cron_result' = MatchAt(expression, clock)
    /\ UNCHANGED <<storeVars, execVars, lastError, schedVars, expression,
                   policy, attempt, delay, compVars>>

\* a minute passes
CronAdvance ==
    /\ cron_result # "none"
    /\ clock < CronStart + CronMinutes * UnitsPerMinute
    /\ clock' = clock + UnitsPerMinute
    /\ cron_result' = "none"
    /\ UNCHANGED <<storeVars, execVars, lastError, queue, tick_seconds, running,
                   tasks, awaiting, fired, expression, policy, attempt, delay,
                   compVars>>

InitCron ==
    /\ jobs = <<>>
    /\ executions = <<>>
    /\ calls = <<>>
    /\ started = <<>>
    /\ clock = CronStart
    /\ tick_seconds = UnitsPerMinute
    /\ InitIdle
    /\ expression \in CronInputs
    /\ cron_result = "none"
    /\ policy = DefaultPolicy
    /\ attempt = 0
    /\ delay = [ok |-> TRUE, value |-> 0]
    /\ InitComp

NextCron == CronShouldRun \/ CronAdvance

SpecCron == InitCron /\ [][NextCron]_vars

(***************************************************************************)
(* CronParser.should_run_now applied to five-field schedules whose fields  *)
(* are of the five documented forms, at instants of several days, hours,   *)
(* minutes and seconds (SpecMatch)                                         *)
(***************************************************************************)
MatchDays == 7   \* days the instants range over, from Monday 2024-01-01 on

\* str(n) for 0 <= n < 100
ToText(n) ==
    IF n < 10 THEN <<Digits[n + 1]>>
    ELSE <<Digits[(n \div 10) + 1], Digits[(n % 10) + 1]>>

\* the forms of a field: `*`, `N`, `*/N`, `A-B`, `A,B`
AnyField == [kind |-> "any", a |-> 0, b |-> 0]
ValueField(n) == [kind |-> "value", a |-> n, b |-> 0]
EveryField(n) == [kind |-> "every", a |-> n, b |-> 0]
RangeField(a, b) == [kind |-> "range", a |-> a, b |-> b]
ListField(a, b) == [kind |-> "list", a |-> a, b |-> b]

\* the text of a field
FieldText(f) ==
    CASE f.kind = "any" -> Star
      [] f.kind = "value" -> ToText(f.a)
      [] f.kind = "every" -> <<"*", "/">> \o ToText(f.a)
      [] f.kind = "range" -> ToText(f.a) \o <<"-">> \o ToText(f.b)
      [] f.kind = "list" -> ToText(f.a) \o <<",">> \o ToText(f.b)

MinuteFields ==
    {AnyField, ValueField(5), EveryField(5), RangeField(1, 5), ListField(0, 6)}
HourFields == {AnyField, ValueField(12)}
DayOfMonthFields == {AnyField, EveryField(2), RangeField(2, 4)}
MonthFields == {ValueField(1), ValueField(2)}
DayOfWeekFields ==
    {AnyField, ValueField(0), RangeField(1, 5), ListField(5, 6)}

MatchSchedules ==
    {CronSchedule(FieldText(mi), FieldText(h), FieldText(d), FieldText(mo),
                  FieldText(w)) :
        mi \in MinuteFields, h \in HourFields, d \in DayOfMonthFields,
        mo \in MonthFields, w \in DayOfWeekFields}

MatchInstants ==
    {((d * 24 + h) * 60 + m) * UnitsPerMinute + u :
        d \in 0..(MatchDays - 1), h \in {0, 12}, m \in {0, 5, 6},
        u \in 0..(UnitsPerMinute - 1)}

\* CronParser.should_run_now(schedule, datetime.now())
MatchShouldRun ==
    /\ cron_result = "none"
    /\ cron_result' = ShouldRunNow(cron_input, Now(clock))
    /\ UNCHANGED <<storeVars, execVars, lastError, schedVars, expression,
                   policy, attempt, delay, compVars>>

\* time passes up to the next instant
MatchAdvance ==
    /\ cron_result # "none"
    /\ \E t \in MatchInstants :
        /\ t > clock
        /\ \A u \in MatchInstants : u > clock => t <= u
        /\ clock' = t
    /\ cron_result' = "none"
    /\ UNCHANGED <<storeVars, execVars, lastError, queue, tick_seconds, running,
                   tasks, awaiting, fired, expression, policy, attempt, delay,
                   compVars>>

InitMatch ==
    /\ jobs = <<>>
    /\ executions = <<>>
    /\ calls = <<>>
    /\ started = <<>>
    /\ clock = 0
    /\ tick_seconds = UnitsPerMinute
    /\ InitIdle
    /\ expression = <<>>
    /\ cron_result = "none"
    /\ policy = DefaultPolicy
    /\ attempt = 0
    /\ delay = [ok |-> TRUE, value |-> 0]
    /\ InitCalls
    /\ cron_input \in MatchSchedules

NextMatch == MatchShouldRun \/ MatchAdvance

SpecMatch == InitMatch /\ [][NextMatch]_vars

(***************************************************************************)
(* resilience/retry.py: RetryStrategy.get_delay (SpecRetry).  The delays    *)
(* are Python floats: backoff_base ** (attempt - 1) raises OverflowError    *)
(* when the power is not below 2 ^ FloatMaxExp, and a product too large    *)
(* for a float is inf.  Bases are powers of two, so that the exponent of   *)
(* the power is exact.                                                     *)
(***************************************************************************)
MaxAttempt == 1026   \* the attempts handed to get_delay go up to MaxAttempt

FloatMaxExp == 1024  \* sys.float_info.max_exp

ExactExp == 20       \* 2 ^ ExactExp exceeds every max_delay offered

Policies ==
    [backoff_base : {2, 4}, initial_delay : {1, 2}, max_delay : {0, 5, 60}]

Log2(b) == CHOOSE k \in 1..8 : 2 ^ k = b

Min(a, b) == IF a <= b THEN a ELSE b

Ok(v) == [ok |-> TRUE, value |-> v]

OverflowError == [ok |-> FALSE, value |-> 0]

\* RetryStrategy.get_delay
GetDelay(p, a) ==
    IF a <= 0 THEN Ok(0)
    ELSE LET e == Log2(p.backoff_base) * (a - 1)
         IN IF e >= FloatMaxExp THEN OverflowError
            ELSE IF e > ExactExp THEN Ok(p.max_delay)
            ELSE Ok(Min(p.initial_delay * 2 ^ e, p.max_delay))

\* get_delay(attempt + 1)
RetryDelay ==
    /\ attempt < MaxAttempt
    /\ attempt' = attempt + 1
    /\ delay' = GetDelay(policy, attempt + 1)
    /\ UNCHANGED <<storeVars, execVars, lastError, schedVars, expression,
                   cron_result, policy, compVars>>

InitRetry ==
    /\ jobs = <<>>
    /\ executions = <<>>
    /\ calls = <<>>
    /\ started = <<>>
    /\ clock = 0
    /\ tick_seconds = UnitsPerMinute
    /\ InitIdle
    /\ expression = <<>>
    /\ cron_result = "none"
    /\ policy \in Policies
    /\ attempt = -1
    /\ delay = GetDelay(policy, -1)
    /\ InitComp

NextRetry == RetryDelay

SpecRetry == InitRetry /\ [][NextRetry]_vars

(***************************************************************************)
(* executors/*.py: an executor of each kind, shut down and called           *)
(* (SpecExec)                                                               *)
(***************************************************************************)
\* ThreadPoolExecutor / ProcessPoolExecutor.submit after shutdown() raises
\* RuntimeError, which `except Exception` of execute turns into a result
ClosedPoolResult ==
    ExecutionResult("FAILED", "None",
                    Some(ErrMsg("cannot schedule new futures after shutdown", None)),
                    Some("Traceback"), Some(0))

\* executor.execute(job) on the executor of job.job_type, `shut` being the
\* executors shut down: whether the user function was invoked, the
\* exception execute raised ("" = none), the seconds the call waited for a
\* pool worker and the ExecutionResult it returned.
\* The shutdown of SyncExecutor and of AsyncExecutor is `pass`.
ExecuteOn(job, o, shut) ==
    IF job.job_type \in {"thread", "process"} /\ job.job_type \in shut
    THEN [job_type |-> job.job_type, invoked |-> FALSE, raised |-> "",
          waited |-> 0, result |-> ClosedPoolResult]
    ELSE IF Propagates(o)
    THEN [job_type |-> job.job_type, invoked |-> TRUE, raised |-> o.exc,
          waited |-> 0, result |-> NoResult]
    ELSE [job_type |-> job.job_type, invoked |-> TRUE, raised |-> "",
          waited |-> 0, result |-> Execute(job, o)]

\* executor.shutdown() on the executor of job type k
Shutdown(k) ==
    /\ closed' = closed \cup {k}
    /\ UNCHANGED <<storeVars, execVars, lastError, schedVars, expression,
                   cron_result, policy, attempt, delay, exec_result, retry_call,
                   should,
                   moreVars>>

\* ExecutorManager._executors in the order of the dict
ManagerOrder == <<"sync", "async", "thread", "process">>

\* ExecutorManager.shutdown_all: executor.shutdown() on each executor in
\* turn.  `raising` are the pools whose shutdown raises (a pool shut down
\* from one of its own workers cannot join that thread: RuntimeError, after
\* the pool has stopped taking work): the exception leaves the loop, and
\* shutdown_all, at the first of them.
ShutdownAll(raising) ==
    LET hit == {i \in 1..Len(ManagerOrder) : ManagerOrder[i] \in raising}
        reached == {i \in 1..Len(ManagerOrder) : \A h \in hit : i <= h}
    IN /\ closed' = closed \cup {ManagerOrder[i] : i \in reached}
       /\ lastError' = IF hit = {} THEN "" ELSE "RuntimeError"
       /\ UNCHANGED <<storeVars, execVars, schedVars, expression, cron_result,
                      policy, attempt, delay, exec_result, retry_call, should,
                      moreVars>>

\* await executor.execute(job)
ExecutorExecute(job, o) ==
    /\ o \in FnOutcomes(job.function)
    /\ exec_result' = ExecuteOn(job, o, closed)
    /\ UNCHANGED <<storeVars, execVars, lastError, schedVars, expression,
                   cron_result, policy, attempt, delay, closed, retry_call,
                   should,
                   moreVars>>

InitExec ==
    /\ jobs = <<>>
    /\ executions = <<>>
    /\ calls = <<>>
    /\ started = <<>>
    /\ clock = 0
    /\ tick_seconds = UnitsPerMinute
    /\ InitRest

\* seconds the workers of a busy pool stay busy
PoolWaits == 1..SlowSeconds

\* await executor.execute(job) on a ThreadExecutor or ProcessExecutor all of
\* whose workers are running other jobs for `wait` seconds more
ExecutorExecuteQueued(job, o, wait) ==
    /\ job.job_type \in {"thread", "process"}
    /\ job.job_type \notin closed
    /\ o \in FnOutcomes(job.function)
    /\ ~Propagates(o)
    /\ exec_result' = [job_type |-> job.job_type, invoked |-> TRUE, raised |-> "",
                       waited |-> wait,
                       result |-> PoolExecuteQueued(job, o, wait)]
    /\ UNCHANGED <<storeVars, execVars, lastError, schedVars, expression,
                   cron_result, policy, attempt, delay, closed, retry_call,
                   should, moreVars>>

\* the jobs handed to the executors: those of add_job, and an async and a
\* thread job with a timeout whose function is slow or fast
ExecJobs ==
    JobTemplates \cup { Job("sleep", "async",  0, Some(1), None),
                        Job("flaky", "async",  0, Some(1), None),
                        Job("add",   "thread", 0, Some(1), None) }

NextExec ==
    \/ \E k \in JobType : Shutdown(k)
    \/ \E raising \in SUBSET {"thread", "process"} : ShutdownAll(raising)
    \/ \E job \in ExecJobs :
         \E o \in UNION {FnOutcomes(f) : f \in Functions} : ExecutorExecute(job, o)
    \/ \E job \in ExecJobs :
         \E o \in UNION {FnOutcomes(f) : f \in Functions} :
            \E wait \in PoolWaits : ExecutorExecuteQueued(job, o, wait)

SpecExec == InitExec /\ [][NextExec]_vars

(***************************************************************************)
(* executors/async_executor.py: concurrent execute calls on one            *)
(* AsyncExecutor (SpecAsync).  A call waits for a slot of the semaphore,   *)
(* holds it while job.function runs, and leaves by a return, by a failure  *)
(* or by the cancellation of its task.  A coroutine function runs in the   *)
(* task itself; a plain function runs in a thread of asyncio.to_thread,    *)
(* which a cancellation of the task does not stop.                         *)
(***************************************************************************)
asyncRest == <<storeVars, execVars, lastError, schedVars, expression,
               cron_result, policy, attempt, delay, closed, exec_result,
               retry_call, should, cron_input, sweep>>

FnKinds == {"coroutine", "plain"}

\* AsyncExecutor(max_concurrent = n)
AsyncNew(n) ==
    /\ \A k \in AsyncCalls : async_exec.at[k] = "new"
    /\ async_exec' = AsyncExecutor(n)
    /\ UNCHANGED asyncRest

\* executor.execute(job) called: the task reaches `async with self.semaphore`
AsyncCall(k, kind) ==
    /\ async_exec.at[k] = "new"
    /\ async_exec' = [async_exec EXCEPT !.at[k] = "waiting", !.fn[k] = kind]
    /\ UNCHANGED asyncRest

\* the semaphore is acquired: _running_count += 1 and job.function starts
AsyncEnter(k) ==
    /\ async_exec.at[k] = "waiting"
    /\ async_exec.free > 0
    /\ async_exec' = [async_exec EXCEPT !.at[k] = "holding",
                                        !.free = @ - 1,
                                        !.running_count = @ + 1]
    /\ UNCHANGED asyncRest

\* job.function returns or raises: a result is returned, `finally` takes
\* 1 off _running_count and the `async with` releases the slot
AsyncFinish(k) ==
    /\ async_exec.at[k] = "holding"
    /\ async_exec' = [async_exec EXCEPT !.at[k] = "returned",
                                        !.free = @ + 1,
                                        !.running_count = @ - 1]
    /\ UNCHANGED asyncRest

\* task.cancel() on the task of the call.  While it waits for a slot the
\* call just ends.  While it holds one, CancelledError is raised at its
\* await: `finally` and the `async with` run as on a return; a coroutine
\* function ends with it, whereas the thread running a plain function goes
\* on to the end of the function.
AsyncCancel(k) ==
    /\ async_exec.at[k] \in {"waiting", "holding"}
    /\ async_exec' =
          IF async_exec.at[k] = "waiting"
          THEN [async_exec EXCEPT !.at[k] = "cancelled"]
          ELSE [async_exec EXCEPT
                   !.at[k] = IF async_exec.fn[k] = "plain"
                             THEN "abandoned" ELSE "cancelled",
                   !.free = @ + 1,
                   !.running_count = @ - 1]
    /\ UNCHANGED asyncRest

\* the plain function of a cancelled call reaches its end in its thread
AsyncThreadEnd(k) ==
    /\ async_exec.at[k] = "abandoned"
    /\ async_exec' = [async_exec EXCEPT !.at[k] = "cancelled"]
    /\ UNCHANGED asyncRest

InitAsync == InitExec

NextAsync ==
    \/ \E n \in 1..MaxConcurrent : AsyncNew(n)
    \/ \E k \in AsyncCalls : \E kind \in FnKinds : AsyncCall(k, kind)
    \/ \E k \in AsyncCalls : AsyncEnter(k)
    \/ \E k \in AsyncCalls : AsyncFinish(k)
    \/ \E k \in AsyncCalls : AsyncCancel(k)
    \/ \E k \in AsyncCalls : AsyncThreadEnd(k)

SpecAsync == InitAsync /\ [][NextAsync]_vars

(***************************************************************************)
(* From the Scheduler to an execution (SpecFlow): the tick loop hands the  *)
(* job of a schedule that is due every minute to _enqueue_job.  The event  *)
(* loop and the clock are fair and user functions end.  TaskQueue.pop has  *)
(* no caller in the code, and nothing calls execute_job for a scheduled    *)
(* job: execute_job is a call a user of the library may make, and no       *)
(* fairness holds for it.                                                  *)
(***************************************************************************)
InitFlow ==
    /\ jobs = <<SeedJob>>
    /\ executions = <<>>
    /\ calls = <<0>>
    /\ started = <<0>>
    /\ clock \in StartClocks
    /\ tick_seconds = UnitsPerMinute   \* Scheduler(...) default: 60 seconds
    /\ schedules = <<EveryMinuteRow>>
    /\ queue = <<>>
    /\ pc = [c \in Callers |-> "idle"]
    /\ cur = [c \in Callers |-> NewExecution(0, 0, "PENDING")]
    /\ swept = {}
    /\ lastError = ""
    /\ running = FALSE
    /\ tasks = <<>>
    /\ awaiting = {}
    /\ fired = <<>>
    /\ InitPure

NextFlow ==
    \/ Start
    \/ Stop
    \/ \E t \in 1..Len(tasks) : StopReturn(t)
    \/ \E t \in 1..Len(tasks) : LoopStep(t)
    \/ Advance
    \/ \E c \in Callers, j \in 1..Len(jobs) : ExecuteBegin(c, j)
    \/ \E c \in Callers :
         \E o \in UNION {FnOutcomes(f) : f \in Functions} : ExecuteFinish(c, o)

\* the executor of caller c's execute_job call can return
FinishReady(c) ==
    pc[c] = "running" /\ \A d \in Callers \ {c} : ~SyncRunning(d)

\* a user function that was invoked ends and its executor returns: weak
\* fairness of ExecuteFinish for caller c, with its enabling condition
\* written out
FairFinish(c) ==
    \/ []<>(~FinishReady(c))
    \/ []<><<\E o \in UNION {FnOutcomes(f) : f \in Functions} :
                 ExecuteFinish(c, o)>>_vars

SpecFlow ==
    /\ InitFlow
    /\ [][NextFlow]_vars
    /\ WF_vars(Advance)
    /\ \A t \in 1..MaxTasks : FairLoopStep(t)
    /\ \A c \in Callers : FairFinish(c)

(***************************************************************************)
(* execute_job calls that fail to route or are cancelled (SpecFail): the   *)
(* operations of Spec, execute_job on a Job object whose job_type is not a *)
(* key of the ExecutorManager or whose function is None, and the           *)
(* cancellation of the task that runs execute_job.  User functions end.    *)
(***************************************************************************)
\* job_type values of Job objects that are no member of JobType
OtherKinds == {"gpu"}

\* ExecutorManager.get_executor: `if job_type in self._executors`
HasExecutor(job_type) == job_type \in JobType

\* calling None: TypeError, caught by the executor's `except Exception`
NotCallableResult ==
    ExecutionResult("FAILED", "None",
                    Some(ErrMsg("'NoneType' object is not callable", None)),
                    Some("Traceback"), Some(0))

\* execute_job(job) for a copy of job j whose job_type is `kind`, without an
\* executor: the PENDING row is inserted, the local Execution is built and
\* get_executor raises ValueError out of execute_job
ExecuteUnrouted(c, j, kind) ==
    /\ LoopFree
    /\ pc[c] # "running"
    /\ j \in 1..Len(jobs)
    /\ Len(executions) < MaxExecs
    /\ ~HasExecutor(kind)
    /\ executions' = Append(executions, CreateExecutionRow(j, clock))
    /\ cur' = [cur EXCEPT ![c] = NewExecution(Len(executions) + 1, j, "RUNNING")]
    /\ started' = [started EXCEPT ![j] = @ + 1]
    /\ pc' = [pc EXCEPT ![c] = "raised"]
    /\ lastError' = "ValueError"
    /\ UNCHANGED <<jobs, schedules, calls, swept, schedVars, pureVars>>

\* execute_job(job) for a copy of job j whose function is None: the
\* executor's call of the function raises TypeError, which the executor
\* turns into a FAILED result that execute_job persists
ExecuteUnresolved(c, j) ==
    /\ LoopFree
    /\ pc[c] # "running"
    /\ j \in 1..Len(jobs)
    /\ Len(executions) < MaxExecs
    /\ HasExecutor(jobs[j].job_type)
    /\ LET execution == FinalExecution(
                            NewExecution(Len(executions) + 1, j, "RUNNING"),
                            NotCallableResult)
       IN /\ cur' = [cur EXCEPT ![c] = execution]
          /\ executions' = UpdateExecution(
                               Append(executions, CreateExecutionRow(j, clock)),
                               execution)
    /\ started' = [started EXCEPT ![j] = @ + 1]
    /\ pc' = [pc EXCEPT ![c] = "returned"]
    /\ UNCHANGED <<jobs, schedules, calls, swept, lastError, schedVars, pureVars>>

\* task.cancel() on the task that runs caller c's execute_job while it is
\* suspended in `await executor.execute(job)`: CancelledError is raised at
\* the await and leaves execute_job; no try/finally persists anything
Cancel(c) ==
    /\ LoopFree
    /\ pc[c] = "running"
    /\ pc' = [pc EXCEPT ![c] = "cancelled"]
    /\ lastError' = "CancelledError"
    /\ UNCHANGED <<storeVars, cur, calls, started, swept, schedVars, pureVars>>

NextFail ==
    \/ Next
    \/ \E c \in Callers, j \in 1..Len(jobs), kind \in OtherKinds :
         ExecuteUnrouted(c, j, kind)
    \/ \E c \in Callers, j \in 1..Len(jobs) : ExecuteUnresolved(c, j)
    \/ \E c \in Callers : Cancel(c)

SpecFail ==
    /\ Init
    /\ [][NextFail]_vars
    /\ \A c \in Callers :
         WF_vars(\E o \in UNION {FnOutcomes(f) : f \in Functions} : ExecuteFinish(c, o))

(***************************************************************************)
(* resilience/retry.py: RetryStrategy.should_retry and execute_with_retry  *)
(* (SpecRetryLoop).  A RetryStrategy is built with max_retries = k;        *)
(* should_retry is applied to attempts and statuses, and                   *)
(* execute_with_retry runs a function whose calls end with a result of any *)
(* status.  Every call of the function ends and every sleep ends: weak     *)
(* fairness of the two steps of the loop.                                  *)
(***************************************************************************)
MaxK == 3   \* RetryStrategy(max_retries=k) is built for k in 0..MaxK

\* the attempts handed to should_retry
RetryAttempts == 0..(MaxK + 1)

\* the max_retries arguments handed to execute_with_retry
RetryOverrides == {None} \cup {Some(m) : m \in 0..MaxK}

\* the results a call of executor_func returns
RetryOutcomes ==
    { ExecutionResult("SUCCESS", "5", None, None, Some(0)),
      ExecutionResult("SUCCESS", "42", None, None, Some(0)),
      ExecutionResult("FAILED", "None", Some(ErrMsg("boom", None)),
                      Some("Traceback"), Some(0)),
      ExecutionResult("TIMEOUT", "None",
                      Some(ErrMsg("Job timed out after {}s", Some(1))),
                      None, Some(1)) }

ShouldRetryPastMax(max_retries, a, status) ==
    IF status = "SUCCESS" THEN FALSE
    ELSE IF a > max_retries THEN FALSE
    ELSE TRUE

ShouldRetryWhateverStatus(max_retries, a, status) ==
    IF a >= max_retries THEN FALSE ELSE TRUE

\* RetryStrategy.should_retry of a strategy built with max_retries
ShouldRetry(max_retries, a, status) ==
    IF status = "SUCCESS" THEN FALSE
    ELSE IF a >= max_retries THEN FALSE
    ELSE TRUE

\* `max_retries or self.max_retries`: None and 0 give self.max_retries
MaxTries(max_retries, self_max_retries) ==
    IF IsNone(max_retries) \/ Get(max_retries) = 0 THEN self_max_retries
    ELSE Get(max_retries)

RetryBusy == retry_call.pc \in {"call", "sleep"}

\* RetryStrategy(max_retries=k)
NewStrategy(k) ==
    /\ ~RetryBusy
    /\ retry_call' = [self_max_retries |-> k, max_retries |-> None,
                      max_tries |-> k, attempt |-> 0, calls |-> 0,
                      result |-> NoResult, pc |-> "idle"]
    /\ UNCHANGED <<storeVars, execVars, schedVars, lastError, expression,
                   cron_result, policy, attempt, delay, closed, exec_result, should,
                   moreVars>>

\* strategy.should_retry(a, result) for a result of the given status
ShouldRetryCall(a, status) ==
    /\ should' = [max_retries |-> retry_call.self_max_retries, attempt |-> a,
                  status |-> status,
                  value |-> ShouldRetry(retry_call.self_max_retries, a, status)]
    /\ UNCHANGED <<storeVars, execVars, schedVars, lastError, expression,
                   cron_result, policy, attempt, delay, closed, exec_result,
                   retry_call,
                   moreVars>>

\* execute_with_retry(executor_func, max_retries) up to `while True`
RetryStart(max_retries) ==
    /\ ~RetryBusy
    /\ retry_call' = [retry_call EXCEPT
                        !.max_retries = max_retries,
                        !.max_tries = MaxTries(max_retries, retry_call.self_max_retries),
                        !.attempt = 1,
                        !.calls = 0,
                        !.result = NoResult,
                        !.pc = "call"]
    /\ UNCHANGED <<storeVars, execVars, schedVars, lastError, expression,
                   cron_result, policy, attempt, delay, closed, exec_result, should,
                   moreVars>>

\* `result = await executor_func()` returns r; then should_retry decides
\* between `return result` and asyncio.sleep(get_delay(attempt))
RetryCall(r) ==
    /\ retry_call.pc = "call"
    /\ retry_call' = [retry_call EXCEPT
                        !.calls = @ + 1,
                        !.result = r,
                        !.pc = IF ShouldRetry(retry_call.self_max_retries,
                                              retry_call.attempt, r.status)
                               THEN "sleep" ELSE "returned"]
    /\ UNCHANGED <<storeVars, execVars, schedVars, lastError, expression,
                   cron_result, policy, attempt, delay, closed, exec_result, should,
                   moreVars>>

\* asyncio.sleep(delay) ends; `attempt += 1` and the loop calls again
RetrySleep ==
    /\ retry_call.pc = "sleep"
    /\ retry_call' = [retry_call EXCEPT !.attempt = @ + 1, !.pc = "call"]
    /\ UNCHANGED <<storeVars, execVars, schedVars, lastError, expression,
                   cron_result, policy, attempt, delay, closed, exec_result, should,
                   moreVars>>

NextRetryLoop ==
    \/ \E k \in 0..MaxK : NewStrategy(k)
    \/ \E a \in RetryAttempts, status \in ExecutionStatus : ShouldRetryCall(a, status)
    \/ \E m \in RetryOverrides : RetryStart(m)
    \/ \E r \in RetryOutcomes : RetryCall(r)
    \/ RetrySleep

SpecRetryLoop ==
    /\ Init
    /\ [][NextRetryLoop]_vars
    /\ WF_vars(\E r \in RetryOutcomes : RetryCall(r))
    /\ WF_vars(RetrySleep)

(***************************************************************************)
(* Properties of execute_job and of the recovery sweep (under Spec)        *)
(***************************************************************************)
RowsOf(j) == {i \in 1..Len(executions) : executions[i].job_id = j}

AlwaysFails(fn) == \A o \in FnOutcomes(fn) : o.kind = "raise"

HasSuccess(execs, j) ==
    \E i \in 1..Len(execs) : execs[i].job_id = j /\ execs[i].status = "SUCCESS"

NoRunningRow == \A i \in 1..Len(executions) : executions[i].status # "RUNNING"

\* C1: whenever execute_job has returned, the Execution it returned has one
\* of the statuses SUCCESS, FAILED, TIMEOUT, never PENDING or RUNNING.
C1_ReturnedStatusTerminal ==
    \A c \in Callers : pc[c] = "returned" => cur[c].status \in Terminal

C1_Witness ==
    \E c \in Callers : pc[c] = "returned" /\ cur[c].status = "TIMEOUT"

\* C2: for a job with max_retries = k whose function fails on every
\* invocation, once its one execute_job call has returned the function was
\* invoked k+1 times, the store holds exactly k+1 rows for the job with
\* attempts 1..k+1, and the returned Execution is FAILED.
C2_RetryLeavesOneRowPerAttempt ==
    \A c \in Callers :
        (/\ pc[c] = "returned"
         /\ AlwaysFails(jobs[cur[c].job_id].function)
         /\ started[cur[c].job_id] = 1)
        => LET j == cur[c].job_id
               k == jobs[j].max_retries
           IN /\ calls[j] = k + 1
              /\ Cardinality(RowsOf(j)) = k + 1
              /\ {executions[i].attempt : i \in RowsOf(j)} = 1..(k + 1)
              /\ cur[c].status = "FAILED"

\* C3: once the store holds a SUCCESS execution of a job that has an
\* idempotency_key, no step invokes the job's function again, and every
\* execute_job of that job that returns afterwards returns SUCCESS with the
\* stored result.
C3_IdempotentAfterSuccess ==
    [][\A j \in 1..Len(jobs) :
         (~IsNone(jobs[j].idempotency_key) /\ HasSuccess(executions, j))
         => /\ calls'[j] = calls[j]
            /\ \A c \in Callers :
                 (pc[c] # "returned" /\ pc'[c] = "returned" /\ cur'[c].job_id = j)
                 => /\ cur'[c].status = "SUCCESS"
                    /\ \E i \in RowsOf(j) :
                         /\ executions[i].status = "SUCCESS"
                         /\ Get(GetExecution(executions, i)).result = cur'[c].result
      ]_vars

\* C7: immediately after RecoveryManager.recover returns, no row of the
\* executions table has status RUNNING, whatever the table held before.
C7_NoRunningAfterRecover == [][Recover => NoRunningRow']_vars

C7_Witness == Cardinality(swept) >= 2 /\ NoRunningRow

\* C8: every execution the sweep found RUNNING is afterwards FAILED with a
\* non-null completed_at and a non-null error_message.
C8_SweptRowsCompleted ==
    \A i \in swept :
        /\ executions[i].status = "FAILED"
        /\ ~IsNone(executions[i].completed_at)
        /\ ~IsNone(executions[i].error_message)

\* C9: in every store state a RUNNING execution has completed_at null and
\* an execution with a terminal status has completed_at non-null.
C9_CompletedAtIffTerminal ==
    \A i \in 1..Len(executions) :
        /\ executions[i].status = "RUNNING" => IsNone(executions[i].completed_at)
        /\ executions[i].status \in Terminal => ~IsNone(executions[i].completed_at)

\* C10: while the user function of an execution is running, the store row
\* of that execution has status RUNNING.
C10_RowRunningWhileFunctionRuns ==
    \A c \in Callers :
        pc[c] = "running" => executions[cur[c].id].status = "RUNNING"

(***************************************************************************)
(* Properties of the Scheduler (under SpecTicks and SpecSched)             *)
(***************************************************************************)
IsCronSchedule(sid) ==
    IsNone(schedules[sid].run_at) /\ ~Falsy(schedules[sid].cron_expression)

IsOneShot(sid) == ~IsNone(schedules[sid].run_at)

\* the calls of _enqueue_job for schedule sid
CallsOf(log, sid) == {i \in 1..Len(log) : log[i].sid = sid}

\* the pushes made for schedule sid
FiringsOf(log, sid) == {i \in CallsOf(log, sid) : log[i].pushed}

\* the pushes a step adds to the log
NewFirings == {i \in 1..Len(fired') : i > Len(fired) /\ fired'[i].pushed}

\* a step in which some _run_loop task runs _tick
TickStep == \E t \in 1..Len(tasks) : LoopStep(t) /\ running

C5_Every5Minutes ==
    [][TickStep =>
         \A sid \in 1..Len(schedules) :
            (/\ schedules[sid].enabled
             /\ IsNone(schedules[sid].run_at)
             /\ schedules[sid].cron_expression
                    = Some(Cron5(EveryN("5"), Star, Star, Star, Star)))
            => ((\E i \in NewFirings : fired'[i].sid = sid /\ queue' # queue)
                    <=> Now(clock).minute % 5 = 0)
      ]_vars

C11_TerminalStatusStable ==
    [][\A i \in 1..Len(executions) :
          executions[i].status \in Terminal
          => executions'[i].status = executions[i].status]_vars

\* recover has swept a RUNNING row and execute_job has finished another
C11_Witness ==
    /\ \E i \in swept : executions[i].status = "FAILED"
    /\ \E k \in 1..Len(executions) :
          k \notin swept /\ executions[k].status = "TIMEOUT"

(***************************************************************************)
(* Executors (under Spec)                                                  *)
(***************************************************************************)
AllOutcomes == UNION {FnOutcomes(f) : f \in Functions}

\* the job a caller of execute_job is running
JobOf(c) == jobs[cur[c].job_id]

\* a step in which caller c's execute_job ends (returns or raises)
Finishes(c) == pc[c] = "running" /\ pc'[c] # "running"

\* every invocation of the job's function runs longer than timeout_seconds
RunsLongerThanTimeout(job) ==
    /\ Truthy(job.timeout_seconds)
    /\ \A o \in FnOutcomes(job.function) : Elapsed(o) > Get(job.timeout_seconds)

\* C12: when a THREAD job with timeout_seconds = T runs a function that
\* takes longer than T, execute_job returns TIMEOUT with an error_message
\* that carries T, and the store row of the execution is TIMEOUT.
C12_ThreadTimeout ==
    [][\A c \in Callers :
          (/\ Finishes(c)
           /\ JobOf(c).job_type = "thread"
           /\ RunsLongerThanTimeout(JobOf(c)))
          => /\ pc'[c] = "returned"
             /\ cur'[c].status = "TIMEOUT"
             /\ ~IsNone(cur'[c].error_message)
             /\ Get(cur'[c].error_message).arg = JobOf(c).timeout_seconds
             /\ executions'[cur'[c].id].status = "TIMEOUT"]_vars

C12_Witness ==
    \E c \in Callers :
        /\ pc[c] = "returned"
        /\ JobOf(c).job_type = "thread"
        /\ cur[c].status = "TIMEOUT"
        /\ executions[cur[c].id].status = "TIMEOUT"
        /\ Get(cur[c].error_message).arg = Some(1)

\* C13: whatever the user function raises, the executor returns (execute_job
\* returns, it does not raise) an ExecutionResult with status FAILED that
\* carries the error message and the traceback.
C13_FailuresEncoded ==
    [][\A c \in Callers, o \in AllOutcomes :
          (ExecuteFinish(c, o) /\ o.kind = "raise")
          => /\ pc'[c] = "returned"
             /\ ~Propagates(o)
             /\ LET result == Execute(JobOf(c), o)
                IN /\ result.status = "FAILED"
                   /\ result.error = Some(ErrMsg(o.msg, None))
                   /\ ~IsNone(result.traceback)]_vars

(***************************************************************************)
(* Store constraints                                                       *)
(***************************************************************************)
\* C14: schedule_job is rejected when both or neither of cron_expression
\* and run_at are given, so every schedules row has exactly one of them.
C14_ExactlyOneOfCronRunAt ==
    \A sid \in 1..Len(schedules) :
        IsNone(schedules[sid].cron_expression) # IsNone(schedules[sid].run_at)

UniqueNames(js) ==
    \A i, k \in 1..Len(js) : js[i].name = js[k].name => i = k

UniqueKeys(js) ==
    \A i, k \in 1..Len(js) :
        (~IsNone(js[i].idempotency_key)
         /\ js[i].idempotency_key = js[k].idempotency_key) => i = k

\* C15: add_job adds a row only when no existing job has its name or its
\* non-null idempotency_key, a call that ends in IntegrityError adds no row,
\* and names and non-null idempotency keys stay pairwise distinct.
C15_UniqueNameAndKey ==
    [][/\ Len(jobs') > Len(jobs) =>
            LET new == jobs'[Len(jobs')]
            IN \A i \in 1..Len(jobs) :
                  /\ jobs[i].name # new.name
                  /\ IsNone(new.idempotency_key)
                     \/ jobs[i].idempotency_key # new.idempotency_key
       /\ (lastError' = "IntegrityError" /\ lastError' # lastError) => jobs' = jobs
       /\ UniqueNames(jobs')
       /\ UniqueKeys(jobs')]_vars

\* a second add_job with the idempotency key "K" was refused
C15_Witness ==
    /\ lastError = "IntegrityError"
    /\ Len(jobs) = 2
    /\ \E i \in 1..Len(jobs) : jobs[i].idempotency_key = Some("K")
    /\ \A i \in 1..Len(jobs) : jobs[i].function # "add"

(***************************************************************************)
(* What execute_job persists (under Spec)                                  *)
(***************************************************************************)
\* the Execution that get_execution reads back for a caller's execution
Stored(c) == Get(GetExecution(executions, cur[c].id))

\* C16 (as stated): for every execution that execute_job finished with
\* SUCCESS and a JSON-encodable result v, get_execution(id).result = v.
C16_ResultRoundTrips ==
    \A c \in Callers :
        (pc[c] = "returned" /\ cur[c].status = "SUCCESS")
        => Stored(c).result = cur[c].result

\* C16 (amended): the result round-trips when v holds no tuple, that is
\* when v is built from None, bool, int, str and list; 0, False, '' and
\* None included.
C16_JsonValueRoundTrips ==
    \A c \in Callers :
        (pc[c] = "returned" /\ cur[c].status = "SUCCESS" /\ ~HasTuple(cur[c].result))
        => Stored(c).result = cur[c].result

\* the empty string and False have been returned and read back
C16_Witness ==
    \E c, d \in Callers :
        /\ pc[c] = "returned" /\ cur[c].status = "SUCCESS"
        /\ cur[c].result = "''" /\ Stored(c).result = "''"
        /\ pc[d] = "returned" /\ cur[d].status = "SUCCESS"
        /\ cur[d].result = "False" /\ Stored(d).result = "False"

\* C17: every execution that execute_job persists with a terminal status
\* has duration_seconds populated with a value >= 0, in the returned
\* Execution and in the store row.
C17_DurationPopulated ==
    \A c \in Callers :
        (pc[c] = "returned" /\ cur[c].status \in Terminal)
        => /\ ~IsNone(cur[c].duration_seconds)
           /\ Get(cur[c].duration_seconds) >= 0
           /\ ~IsNone(executions[cur[c].id].duration_seconds)
           /\ Get(executions[cur[c].id].duration_seconds) >= 0

(***************************************************************************)
(* Properties of the CronParser (under SpecCron)                           *)
(***************************************************************************)
\* C18: at every instant the shorthand `*/N` and the five-field form
\* `*/N * * * *` give the same answer: should_run_now(parse("*/N"), t) =
\* should_run_now(parse("*/N * * * *"), t).
C18_ShorthandEqualsCanonical ==
    \A n \in CronNs :
        (expression = EveryN(n) /\ cron_result # "none")
        => cron_result = MatchAt(Canonical(n), clock)

(***************************************************************************)
(* Properties of RetryStrategy.get_delay (under SpecRetry)                 *)
(***************************************************************************)
\* C19: get_delay is non-decreasing from one attempt to the next, never
\* exceeds max_delay, and stays at max_delay once it has reached it.
C19_DelayMonotoneAndCapped ==
    [][attempt' = attempt + 1 =>
          /\ delay.ok /\ delay'.ok
          /\ delay.value <= delay'.value
          /\ delay'.value <= policy.max_delay
          /\ (attempt >= 1 /\ delay.value = policy.max_delay)
             => delay'.value = policy.max_delay]_vars

(***************************************************************************)
(* Properties of the tick loop (under SpecLoop)                            *)
(***************************************************************************)
\* the instants of a run after its first
Instants ==
    UNION {(c0 + 1)..(c0 + Horizon) : c0 \in StartClocks}

\* task t sleeps until instant w
AsleepUntil(t, w) ==
    /\ t \in 1..Len(tasks)
    /\ tasks[t].pc = "sleep"
    /\ tasks[t].wake = w

\* task t has run an iteration at instant w or later
TickedAgain(t, w) ==
    t \in 1..Len(tasks) /\ tasks[t].pc = "sleep" /\ tasks[t].wake > w

\* C20: a tick that raises (a schedule whose evaluation raises, or a Store
\* error) does not end the loop: the task goes to sleep for tick_seconds,
\* and a task asleep until w runs another tick at w or later unless the
\* Scheduler is stopped.
C20_LoopSurvivesTickError ==
    /\ [][\A t \in 1..Len(tasks) :
            ((LoopStep(t) /\ running /\ TickRaises(clock)) \/ LoopStepStoreError(t))
            => tasks'[t] = [pc |-> "sleep", wake |-> clock + tick_seconds]]_vars
    /\ \A t \in 1..MaxTasks, w \in Instants :
          AsleepUntil(t, w) ~> (~running \/ TickedAgain(t, w))

\* ticks at two instants have called _enqueue_job, each of them raised, and
\* the tick at this instant raises too
C20_Witness ==
    /\ TickRaises(clock)
    /\ \E i, k \in 1..Len(fired) : fired[i].at < fired[k].at

(***************************************************************************)
(* Scheduler.start and Scheduler.stop (under SpecTicks and SpecSched)      *)
(***************************************************************************)
\* C21: Start on a Scheduler that is already Running creates no tick loop:
\* no step taken while the Scheduler is Running adds a loop task, and a step
\* that adds one adds exactly one and leaves the Scheduler Running.
C21_StartIdempotent ==
    [][/\ running => Len(tasks') = Len(tasks)
       /\ Len(tasks') # Len(tasks)
              => (~running /\ running' /\ Len(tasks') = Len(tasks) + 1)]_vars

\* the Scheduler was started and has run a tick with its one loop task
C21_Witness ==
    running /\ Len(tasks) = 1 /\ tasks[1].pc = "sleep"

\* a Stop call made now returns: at once when the Scheduler is not Running
\* (`if not self.running: return`), or from `await self._task` when the
\* awaited task is done
StopCanReturn ==
    LoopFree /\ (~running \/ \E t \in awaiting : tasks[t].pc = "done")

\* C22: Stop returns only after the tick loop has ended: in a state where a
\* Stop call returns, every loop task of the Scheduler is done (it runs no
\* tick and pushes nothing any more).
C22_StopReturnsAfterLoopEnded ==
    StopCanReturn => \A t \in 1..Len(tasks) : tasks[t].pc = "done"

(***************************************************************************)
(* Executors after shutdown (under SpecExec)                               *)
(***************************************************************************)
\* C23: an Execute call on an executor that was shut down fails with
\* ExecutorClosed and does not run the user function, for each of the four
\* executor kinds.
C23_ExecuteAfterShutdownFails ==
    [][(exec_result' # exec_result /\ exec_result'.job_type \in closed)
       => (~exec_result'.invoked /\ exec_result'.raised = "ExecutorClosed")]_vars

(***************************************************************************)
(* Invocations of one job (under Spec)                                     *)
(***************************************************************************)
\* some execute_job call for job j is between the invocation of the user
\* function and the return of the executor
Invoking(j) == \E c \in Callers : pc[c] = "running" /\ cur[c].job_id = j

\* C24: the invocations of one job's function are strictly sequential: an
\* invocation starts only when no earlier invocation of the job is still
\* running and every earlier execution of the job is persisted with its
\* outcome.
C24_AttemptsSequential ==
    [][\A j \in 1..Len(calls) :
         calls'[j] > calls[j]
         => /\ ~Invoking(j)
            /\ \A i \in RowsOf(j) : executions[i].status \in Terminal]_vars

(***************************************************************************)
(* From the Scheduler to an execution (under SpecFlow)                     *)
(***************************************************************************)
\* the ids of the jobs in the store
FlowJobs == {1}

\* job j waits in the queue
Queued(j) == \E i \in 1..Len(queue) : queue[i] = j

\* job j has left the queue and has an execution with a terminal status
Executed(j) ==
    /\ ~Queued(j)
    /\ \E i \in 1..Len(executions) :
          executions[i].job_id = j /\ executions[i].status \in Terminal

\* a tick of the Scheduler has handed job j to _enqueue_job, the only place
\* that pushes to the queue
Enqueued(j) ==
    \E i \in 1..Len(fired) : schedules[fired[i].sid].job_id = j

C26_RoutingFailurePersisted ==
    [][\A c \in Callers, j \in 1..Len(jobs) :
          ((\E kind \in OtherKinds : ExecuteUnrouted(c, j, kind))
             \/ ExecuteUnresolved(c, j))
          => executions'[cur'[c].id].status = "FAILED"]_vars

\* row i was created by an execute_job call that was cancelled after its
\* user function had started
CancelledRow(i) ==
    \E c \in Callers : pc[c] = "cancelled" /\ cur[c].id = i

\* C27: an execute_job call cancelled after its user function has started
\* still gets its outcome persisted: the row of a cancelled call eventually
\* has a terminal status.
C27_CancelledExecutionPersisted ==
    \A i \in 1..MaxExecs :
        CancelledRow(i) ~> (i \in 1..Len(executions)
                              /\ executions[i].status \in Terminal)

(***************************************************************************)
(* Properties of should_retry and execute_with_retry (under SpecRetryLoop) *)
(***************************************************************************)
\* C28: execute_with_retry with max_retries = k and a function that never
\* returns SUCCESS calls the function exactly k + 1 times and then returns
\* the last result: a call that returned a result other than SUCCESS has
\* called the function max_tries + 1 times.
C28_AlwaysFailingCalledKPlus1 ==
    (retry_call.pc = "returned" /\ retry_call.result.status # "SUCCESS")
    => retry_call.calls = retry_call.max_tries + 1

\* C29: should_retry(attempt, result) is true exactly when result.status is
\* not SUCCESS and attempt < max_retries, for every attempt and status.
C29_ShouldRetryExact ==
    [][should' # should
         => (should'.value <=> (/\ should'.status # "SUCCESS"
                                /\ should'.attempt < should'.max_retries))]_vars

\* should_retry said yes to a TIMEOUT result at the last attempt below
\* max_retries, and no to a FAILED result at max_retries
C29_Witness ==
    \/ /\ should.status = "TIMEOUT"
       /\ should.attempt = should.max_retries - 1
       /\ should.attempt >= 1
       /\ should.value
    \/ /\ should.status = "FAILED"
       /\ should.attempt = should.max_retries
       /\ should.attempt >= 1
       /\ ~should.value

\* C30: execute_with_retry stops at the first SUCCESS: once the function has
\* returned a SUCCESS result the call has returned, with that result, and
\* the function is not called again; and a call under way returns.
C30_StopsAtFirstSuccess ==
    /\ [](retry_call.result.status = "SUCCESS" => retry_call.pc = "returned")
    /\ [][retry_call.pc = "returned"
            => (retry_call'.calls = retry_call.calls
                  \/ retry_call'.pc # "returned")]_vars
    /\ RetryBusy ~> (retry_call.pc = "returned")

\* a call has returned the SUCCESS result of its third call of the function
C30_Witness ==
    /\ retry_call.pc = "returned"
    /\ retry_call.result.status = "SUCCESS"
    /\ retry_call.calls = 3

\* C31: execute_with_retry(fn, max_retries = m) bounds the attempts by the
\* override m, not by the strategy's own max_retries: a call given m that
\* returned a result other than SUCCESS has called the function m times
\* (m attempts in all) or m + 1 times (m retries after the first attempt).
C31_OverrideBoundsAttempts ==
    (/\ retry_call.pc = "returned"
     /\ ~IsNone(retry_call.max_retries)
     /\ retry_call.result.status # "SUCCESS")
    => retry_call.calls \in {Get(retry_call.max_retries),
                             Get(retry_call.max_retries) + 1}

\* what a field of one of the five forms matches
Matches(f, value) ==
    CASE f.kind = "any" -> TRUE
      [] f.kind = "value" -> value = f.a
      [] f.kind = "every" -> value % f.a = 0
      [] f.kind = "range" -> f.a <= value /\ value <= f.b
      [] f.kind = "list" -> value \in {f.a, f.b}

\* the form a field's text was written from
FieldOf(text, forms) == CHOOSE f \in forms : FieldText(f) = text

\* the instants of the minute that instant t falls in
SameMinute(t) == {u \in MatchInstants : MinuteOf(u) = MinuteOf(t)}

OnSunday(t) == (MinuteOf(t) \div MinutesPerDay) % 7 = 6

\* C33: a schedule whose day_of_week field is "0" matches only instants that
\* fall on a Sunday.
C33_ZeroIsSunday ==
    (cron_result = "true" /\ cron_input.day_of_week = <<"0">>)
        => OnSunday(clock)

\* C34: execute of an ASYNC job with timeout_seconds = T whose function runs
\* longer than T returns TIMEOUT, with an error that carries T.
C34_AsyncTimeout ==
    [][\A job \in ExecJobs : \A o \in FnOutcomes(job.function) :
          (/\ ExecutorExecute(job, o)
           /\ job.job_type = "async"
           /\ Truthy(job.timeout_seconds)
           /\ Elapsed(o) > Get(job.timeout_seconds))
          => (/\ exec_result'.result.status = "TIMEOUT"
              /\ ~IsNone(exec_result'.result.error)
              /\ Get(exec_result'.result.error).arg = job.timeout_seconds)]_vars

\* C35: a THREAD or PROCESS job with timeout_seconds = T whose function
\* returns within T seconds of beginning to run is not timed out, however
\* long the call waited for a free pool worker.
C35_TimeoutCountsFromStart ==
    [][\A job \in ExecJobs : \A o \in FnOutcomes(job.function) :
         \A wait \in PoolWaits :
          (/\ ExecutorExecuteQueued(job, o, wait)
           /\ Truthy(job.timeout_seconds)
           /\ o.kind = "return"
           /\ Elapsed(o) <= Get(job.timeout_seconds))
          => exec_result'.result.status = "SUCCESS"]_vars

\* C37: shutdown_all calls shutdown on every executor even when the shutdown
\* of an earlier one raises, so that every executor whose own shutdown does
\* not raise is shut down when it returns, and it reports an error exactly
\* when some shutdown raised.
C37_ShutdownAllReachesEveryExecutor ==
    [][\A raising \in SUBSET {"thread", "process"} :
          ShutdownAll(raising)
          => (/\ (JobType \ raising) \subseteq closed'
              /\ (lastError' # "") <=> (raising # {}))]_vars

\* the execute calls holding a slot, and the calls whose job.function runs
Holding == {k \in AsyncCalls : async_exec.at[k] = "holding"}
InFlight == {k \in AsyncCalls : async_exec.at[k] \in {"holding", "abandoned"}}

\* C36: on an AsyncExecutor at most max_concurrent user functions run at any
\* time, running_count is the number of execute calls holding a slot and
\* lies between 0 and max_concurrent, and every slot not held by a call is
\* free again whichever way the calls left (return, failure, cancellation).
C36_AtMostMaxConcurrentInFlight ==
    /\ Cardinality(InFlight) <= async_exec.max_concurrent
    /\ async_exec.running_count = Cardinality(Holding)
    /\ async_exec.running_count \in 0..async_exec.max_concurrent
    /\ async_exec.free = async_exec.max_concurrent - Cardinality(Holding)

\* C38: the recovery sweep never turns an execution that has reached a
\* terminal status into FAILED, also when a concurrent update_execution
\* completes the execution between the sweep's SELECT and its UPDATE: the
\* sweep leaves unchanged every row that is not RUNNING.
C38_SweepLeavesNonRunningRows ==
    [][sweep' # sweep =>
          \A i \in 1..Len(executions) :
              executions[i].status # "RUNNING" => executions'[i] = executions[i]]_vars

\* the tick loops that will tick again: the tasks of _run_loop that have not
\* ended, while the Scheduler is Running
ActiveLoops == {t \in 1..Len(tasks) : running /\ tasks[t].pc # "done"}

\* C39: under any interleaving of Start and Stop, a Start made while a Stop
\* is waiting included, at most one tick loop is active at any time and
\* every Stop call that waits for the loop eventually returns.
C39_OneLoopAndStopReturns ==
    /\ [](Cardinality(ActiveLoops) <= 1)
    /\ \A t \in 1..MaxTasks : (t \in awaiting) ~> (t \notin awaiting)

\* the enabled schedules that are due at instant `now`
DueAt(now) ==
    {sid \in 1..Len(schedules) :
        schedules[sid].enabled /\ ShouldExecute(schedules[sid], now) = "true"}

\* C40: within one tick every enabled schedule that is due is handed to
\* _enqueue_job, also when the evaluation of another enabled schedule
\* raises in that tick.
C40_DueSchedulesSurviveRaisingOne ==
    [][TickStep =>
          \A sid \in DueAt(clock) :
              \E i \in (Len(fired) + 1)..Len(fired') : fired'[i].sid = sid]_vars

====
